---- MODULE Spec2Model ----
(***************************************************************************)
(* A model of generate-github-release-notes.py: the paginated GraphQL      *)
(* commit fetch with its from-ref fallback, the classification of the      *)
(* fetched commits into regular and custom sections, and the rendering of  *)
(* the sections.                                                           *)
(*                                                                         *)
(* Text (commit subjects, types, section names, versions) is a sequence of *)
(* one-character strings, so that the regular expressions of the source    *)
(* are modelled by what they match, character by character.  Python's      *)
(* None is the empty sequence wherever the value it stands beside is a     *)
(* non-empty text (a type, a scope, a PR number, a version).               *)
(***************************************************************************)
EXTENDS Integers, Sequences, FiniteSets, TLC

(* ------------------------------------------------------------------ *)
(* Bounds of the model                                                 *)
(* ------------------------------------------------------------------ *)
\* the most commits the remote delivers in one fetch attempt
MaxCommits == 3

\* generate-github-release-notes.py:251  "page_count < 50"
MaxPages == 50

None == <<>>

(* ------------------------------------------------------------------ *)
(* Characters                                                          *)
(* ------------------------------------------------------------------ *)
Digits == {"0", "1", "2", "3", "4", "5", "6", "7", "8", "9"}

LowerLetters ==
  {"a", "b", "c", "d", "e", "f", "g", "h", "i", "j", "k", "l", "m",
   "n", "o", "p", "q", "r", "s", "t", "u", "v", "w", "x", "y", "z"}

UpperLetters ==
  {"A", "B", "C", "D", "E", "F", "G", "H", "I", "J", "K", "L", "M",
   "N", "O", "P", "Q", "R", "S", "T", "U", "V", "W", "X", "Y", "Z"}

\* the characters of the modelled texts, in code point order
CodePoints ==
  <<"\t", " ", "#", "(", ")", ",", "-", ".",
    "0", "1", "2", "3", "4", "5", "6", "7", "8", "9", ":",
    "A", "B", "C", "D", "E", "F", "G", "H", "I", "J", "K", "L", "M",
    "N", "O", "P", "Q", "R", "S", "T", "U", "V", "W", "X", "Y", "Z",
    "[", "]", "_",
    "a", "b", "c", "d", "e", "f", "g", "h", "i", "j", "k", "l", "m",
    "n", "o", "p", "q", "r", "s", "t", "u", "v", "w", "x", "y", "z">>

\* ord(c), up to the gaps between the characters above
Ord(c) == CHOOSE i \in DOMAIN CodePoints : CodePoints[i] = c

\* the regular expression classes \w, \d, \s on these characters
IsWord(c) == c \in LowerLetters \cup UpperLetters \cup Digits \cup {"_"}
IsDigit(c) == c \in Digits
IsSpace(c) == c \in {" ", "\t"}

\* str.lower() / re.IGNORECASE folding of one character
UpperCase ==
  <<"A", "B", "C", "D", "E", "F", "G", "H", "I", "J", "K", "L", "M",
    "N", "O", "P", "Q", "R", "S", "T", "U", "V", "W", "X", "Y", "Z">>
LowerCase ==
  <<"a", "b", "c", "d", "e", "f", "g", "h", "i", "j", "k", "l", "m",
    "n", "o", "p", "q", "r", "s", "t", "u", "v", "w", "x", "y", "z">>

LowerChar(c) ==
  IF c \in UpperLetters
  THEN LowerCase[CHOOSE i \in DOMAIN UpperCase : UpperCase[i] = c]
  ELSE c

Lower(s) == [i \in DOMAIN s |-> LowerChar(s[i])]

(* ------------------------------------------------------------------ *)
(* Text helpers                                                        *)
(* ------------------------------------------------------------------ *)
\* s[a..b] (1-based, inclusive), empty when a > b
Slice(s, a, b) == IF a > b THEN <<>> ELSE SubSeq(s, a, b)

\* lit occurs in s starting at index i
OccursAt(s, lit, i) ==
  /\ i >= 1
  /\ i + Len(lit) - 1 <= Len(s)
  /\ \A k \in 1..Len(lit) : s[i + k - 1] = lit[k]

\* Python's "lit in s"
Contains(s, lit) == \E i \in 1..(Len(s) + 1) : OccursAt(s, lit, i)

\* Python's string order s < t: by code points, a proper prefix first
StrLess(s, t) ==
  \/ /\ Len(s) < Len(t)
     /\ \A k \in 1..Len(s) : s[k] = t[k]
  \/ \E i \in 1..Len(s) :
       /\ i <= Len(t)
       /\ \A k \in 1..(i - 1) : s[k] = t[k]
       /\ Ord(s[i]) < Ord(t[i])

\* str(n) of a natural number
RECURSIVE Str(_)
Str(n) ==
  LET d == CodePoints[Ord("0") + (n % 10)]
  IN IF n < 10 THEN <<d>> ELSE Str(n \div 10) \o <<d>>

\* the end of the run of digits that starts at index p of s
DigitsEnd(s, p) ==
  CHOOSE e \in p..Len(s) :
    /\ \A i \in p..e : IsDigit(s[i])
    /\ e = Len(s) \/ ~IsDigit(s[e + 1])

\* the number a text of decimal digits writes
RECURSIVE NatOf(_)
NatOf(ds) ==
  IF ds = <<>> THEN 0
  ELSE NatOf(SubSeq(ds, 1, Len(ds) - 1)) * 10
       + (CHOOSE d \in 0..9 : Str(d) = <<ds[Len(ds)]>>)

\* the elements of a sequence
Range(s) == {s[i] : i \in DOMAIN s}

\* the sequences of pairwise different elements of S of length at most n
RECURSIVE DistinctSeqs(_, _)
DistinctSeqs(S, n) ==
  IF n = 0 THEN {<<>>}
  ELSE LET shorter == DistinctSeqs(S, n - 1)
       IN shorter \cup
            {Append(q, x) : <<q, x>> \in
               {p \in shorter \X S : Len(p[1]) = n - 1 /\ p[2] \notin Range(p[1])}}

(* ------------------------------------------------------------------ *)
(* parse_commit_message                                                *)
(* ------------------------------------------------------------------ *)
\* the length of the longest run of \w characters at the start of s
WordRun(s) ==
  CHOOSE k \in 0..Len(s) :
    /\ \A i \in 1..k : IsWord(s[i])
    /\ k = Len(s) \/ ~IsWord(s[k + 1])

\* r[p..] matches  \s+\(#(\d+)\)$
IsPRSuffix(r, p) ==
  \E q \in (p + 1)..(Len(r) - 3) :
    /\ \A i \in p..(q - 1) : IsSpace(r[i])
    /\ r[q] = "("
    /\ r[q + 1] = "#"
    /\ r[Len(r)] = ")"
    /\ \A i \in (q + 2)..(Len(r) - 1) : IsDigit(r[i])

\* group (\d+) of a suffix IsPRSuffix accepts
PRDigits(r, p) ==
  LET q == CHOOSE j \in (p + 1)..(Len(r) - 3) :
             /\ \A i \in p..(j - 1) : IsSpace(r[i])
             /\ r[j] = "("
  IN Slice(r, q + 2, Len(r) - 1)

\* (.+?)(?:\s+\(#(\d+)\))?$ on a non-empty rest r: the lazy group takes the
\* fewest characters after which the optional PR suffix, or nothing, ends r
TextLen(r) ==
  CHOOSE t \in 1..Len(r) :
    /\ IsPRSuffix(r, t + 1) \/ t = Len(r)
    /\ \A u \in 1..(t - 1) : ~IsPRSuffix(r, u + 1)

\* SplitAt leaving the PR suffix in the subject
SplitAtWhole(r, t) == [subject |-> r, pr_number |-> None]

SplitAt(r, t) ==
  [subject |-> Slice(r, 1, t),
   pr_number |-> IF t < Len(r) THEN PRDigits(r, t + 1) ELSE None]

SplitText(r) == SplitAt(r, TextLen(r))

\* the index of the first ")" of s after index k, 0 when there is none
FirstClose(s, k) ==
  IF \E j \in (k + 1)..Len(s) : s[j] = ")"
  THEN CHOOSE j \in (k + 1)..Len(s) :
         /\ s[j] = ")"
         /\ \A i \in (k + 1)..(j - 1) : s[i] # ")"
  ELSE 0

\* ^(\w+)\(([^)]+)\): (.+?)(?:\s+\(#(\d+)\))?$
ScopedAt(s, k, j) ==
  /\ k >= 1
  /\ Len(s) >= k + 1
  /\ s[k + 1] = "("
  /\ j >= k + 3
  /\ Len(s) >= j + 3
  /\ s[j + 1] = ":"
  /\ s[j + 2] = " "

MatchesScoped(s) == ScopedAt(s, WordRun(s), FirstClose(s, WordRun(s) + 1))

\* ^(\w+): (.+?)(?:\s+\(#(\d+)\))?$
UnscopedAt(s, k) ==
  /\ k >= 1
  /\ Len(s) >= k + 3
  /\ s[k + 1] = ":"
  /\ s[k + 2] = " "

MatchesUnscoped(s) == UnscopedAt(s, WordRun(s))

\* the groups of a match: r holds the subject and the PR number
Groups(type, scope, r) ==
  [type |-> type, scope |-> scope, subject |-> r.subject, pr_number |-> r.pr_number]

\* ParseAt with the unscoped shape written ^(\w+):(.+?)..., the space after
\* the colon forgotten
ParseAtNoSpace(s, k, j) ==
  IF ScopedAt(s, k, j)
  THEN Groups(Slice(s, 1, k), Slice(s, k + 2, j - 1),
              SplitText(Slice(s, j + 3, Len(s))))
  ELSE IF k >= 1 /\ Len(s) >= k + 2 /\ s[k + 1] = ":"
  THEN Groups(Slice(s, 1, k), None, SplitText(Slice(s, k + 2, Len(s))))
  ELSE [type |-> None, scope |-> None, subject |-> s, pr_number |-> None]

\* ParseAt returning the subject stripped of what follows its first word
\* when neither shape matches
ParseAtFirstWord(s, k, j) ==
  IF ScopedAt(s, k, j)
  THEN Groups(Slice(s, 1, k), Slice(s, k + 2, j - 1),
              SplitText(Slice(s, j + 3, Len(s))))
  ELSE IF UnscopedAt(s, k)
  THEN Groups(Slice(s, 1, k), None, SplitText(Slice(s, k + 3, Len(s))))
  ELSE [type |-> None, scope |-> None, subject |-> Slice(s, 1, k), pr_number |-> None]

\* k is the end of the type, j the ")" that ends the scope
ParseAt(s, k, j) ==
  IF ScopedAt(s, k, j)
  THEN Groups(Slice(s, 1, k), Slice(s, k + 2, j - 1),
              SplitText(Slice(s, j + 3, Len(s))))
  ELSE IF UnscopedAt(s, k)
  THEN Groups(Slice(s, 1, k), None, SplitText(Slice(s, k + 3, Len(s))))
  ELSE [type |-> None, scope |-> None, subject |-> s, pr_number |-> None]

parse_commit_message(s) == ParseAt(s, WordRun(s), FirstClose(s, WordRun(s) + 1))

(* ------------------------------------------------------------------ *)
(* Issue references: extract_issue_numbers and clean_subject           *)
(* ------------------------------------------------------------------ *)
\* config.issuePrefixes and config.issueUrlFormat are sequences of no or
\* one value: the key is absent, or present with that value.  The modelled
\* prefixes are no prefixes of one another, so that at one place of a text
\* at most one alternative of (p1|p2|...)\d+ matches.
HasPrefixes(config) == config.issuePrefixes # <<>> /\ config.issuePrefixes[1] # <<>>

\* re.escape(prefix) + "\d+" matches at index i of s: the index of its last
\* digit, 0 without a match
IssueEndFor(s, i, prefix) ==
  IF /\ OccursAt(s, prefix, i)
     /\ i + Len(prefix) <= Len(s)
     /\ IsDigit(s[i + Len(prefix)])
  THEN DigitsEnd(s, i + Len(prefix))
  ELSE 0

\* (p1|p2|...)\d+ at index i of s: the index of its last digit, 0 without
IssueEnd(s, i, prefixes) ==
  IF \E k \in DOMAIN prefixes : IssueEndFor(s, i, prefixes[k]) # 0
  THEN IssueEndFor(s, i, prefixes[CHOOSE k \in DOMAIN prefixes :
                                    /\ IssueEndFor(s, i, prefixes[k]) # 0
                                    /\ \A h \in 1..(k - 1) :
                                         IssueEndFor(s, i, prefixes[h]) = 0])
  ELSE 0

\* FindAll stopping at the first match
RECURSIVE FindFirst(_, _, _)
FindFirst(text, prefix, i) ==
  IF i > Len(text) THEN {}
  ELSE IF IssueEndFor(text, i, prefix) # 0
  THEN {Slice(text, i, IssueEndFor(text, i, prefix))}
  ELSE FindFirst(text, prefix, i + 1)

\* pattern.findall(text) for one prefix, from index i on
RECURSIVE FindAll(_, _, _)
FindAll(text, prefix, i) ==
  IF i > Len(text) THEN {}
  ELSE IF IssueEndFor(text, i, prefix) # 0
  THEN {Slice(text, i, IssueEndFor(text, i, prefix))}
       \cup FindAll(text, prefix, IssueEndFor(text, i, prefix) + 1)
  ELSE FindAll(text, prefix, i + 1)

\* list(set(all_issues)): the order of the list is that of a set, and the
\* result is kept as the set
extract_issue_numbers(text, config) ==
  IF ~HasPrefixes(config) THEN {}
  ELSE UNION {FindAll(text, config.issuePrefixes[1][k], 1) :
                k \in DOMAIN config.issuePrefixes[1]}

\* \s* from index i on: the index of the first character that is no white
\* space, Len(s) + 1 when there is none
Skip(s, i) ==
  CHOOSE n \in i..(Len(s) + 1) :
    /\ \A h \in i..(n - 1) : IsSpace(s[h])
    /\ n = Len(s) + 1 \/ ~IsSpace(s[n])

\* \s{least,}ISSUE from index a on, the white space greedy: the index where
\* the issue starts, 0 without a match
IssueAfterSpaces(s, a, least, prefixes) ==
  IF \E j \in (a + least)..Skip(s, a) : IssueEnd(s, j, prefixes) # 0
  THEN CHOOSE j \in (a + least)..Skip(s, a) :
         /\ IssueEnd(s, j, prefixes) # 0
         /\ \A h \in (j + 1)..Skip(s, a) : IssueEnd(s, h, prefixes) = 0
  ELSE 0

IsPunctuation(c) == c \in {",", "-", ":"}

And == <<"a", "n", "d">>

\* \s*-\s* after an issue that ends at q: the index after the match, 0 without
DashAfter(s, q) ==
  IF q # 0 /\ Skip(s, q + 1) <= Len(s) /\ s[Skip(s, q + 1)] = "-"
  THEN Skip(s, Skip(s, q + 1) + 1)
  ELSE 0

\* :\s* after an issue that ends at q
ColonAfter(s, q) ==
  IF q # 0 /\ q + 1 <= Len(s) /\ s[q + 1] = ":" THEN Skip(s, q + 2) ELSE 0

\* \s* after an issue that starts at j
SpacesAfterIssueAt(s, j, prefixes) ==
  IF j = 0 THEN 0 ELSE Skip(s, IssueEnd(s, j, prefixes) + 1)

\* \s*-\s* after an issue that starts at j
DashAfterIssueAt(s, j, prefixes) ==
  IF j = 0 THEN 0 ELSE DashAfter(s, IssueEnd(s, j, prefixes))

\* The patterns of clean_subject, in their order, then those of the final
\* clean-up.  MatchEnd is the index after the match of the pattern that
\* starts at index i of s, 0 when the pattern does not match there.
MatchEnd(pattern, s, i, prefixes) ==
  CASE pattern = "^ISSUE:\\s*" ->
         IF i = 1 THEN ColonAfter(s, IssueEnd(s, 1, prefixes)) ELSE 0
    [] pattern = "^and\\s+ISSUE\\s*" ->
         IF i = 1 /\ OccursAt(s, And, 1)
         THEN SpacesAfterIssueAt(s, IssueAfterSpaces(s, 4, 1, prefixes), prefixes)
         ELSE 0
    [] pattern = "^and\\s+ISSUE\\s*-\\s*" ->
         IF i = 1 /\ OccursAt(s, And, 1)
         THEN DashAfterIssueAt(s, IssueAfterSpaces(s, 4, 1, prefixes), prefixes)
         ELSE 0
    [] pattern = "\\s+and\\s+ISSUE\\s*" ->
         IF IsSpace(s[i]) /\ OccursAt(s, And, Skip(s, i))
         THEN SpacesAfterIssueAt(
                s, IssueAfterSpaces(s, Skip(s, i) + 3, 1, prefixes), prefixes)
         ELSE 0
    [] pattern = "ISSUE\\s*-\\s*" -> DashAfter(s, IssueEnd(s, i, prefixes))
    [] pattern = "ISSUE:\\s*" -> ColonAfter(s, IssueEnd(s, i, prefixes))
    [] pattern = "\\s*ISSUE\\s*" ->
         SpacesAfterIssueAt(s, IssueAfterSpaces(s, i, 0, prefixes), prefixes)
    [] pattern = "\\s+" -> IF IsSpace(s[i]) THEN Skip(s, i) ELSE 0
    [] pattern = "^\\s*[,\\-:]\\s*" ->
         IF i = 1 /\ Skip(s, 1) <= Len(s) /\ IsPunctuation(s[Skip(s, 1)])
         THEN Skip(s, Skip(s, 1) + 1)
         ELSE 0
    [] pattern = "\\s*[,\\-:]\\s*$" ->
         IF /\ Skip(s, i) <= Len(s)
            /\ IsPunctuation(s[Skip(s, i)])
            /\ Skip(s, Skip(s, i) + 1) = Len(s) + 1
         THEN Len(s) + 1
         ELSE 0

\* re.sub(pattern, repl, s): the matches are replaced from left to right,
\* the search going on after each match; out is the text made so far
RECURSIVE SubFrom(_, _, _, _, _, _)
SubStep(pattern, repl, s, prefixes, i, out, e) ==
  IF e # 0
  THEN SubFrom(pattern, repl, s, prefixes, e, out \o repl)
  ELSE SubFrom(pattern, repl, s, prefixes, i + 1, Append(out, s[i]))

SubFrom(pattern, repl, s, prefixes, i, out) ==
  IF i > Len(s) THEN out
  ELSE SubStep(pattern, repl, s, prefixes, i, out, MatchEnd(pattern, s, i, prefixes))

Sub(pattern, repl, s, prefixes) == SubFrom(pattern, repl, s, prefixes, 1, <<>>)

\* str.strip()
LastInk(s) ==
  CHOOSE n \in 0..Len(s) :
    /\ \A h \in (n + 1)..Len(s) : IsSpace(s[h])
    /\ n = 0 \/ ~IsSpace(s[n])

Strip(s) == Slice(s, Skip(s, 1), LastInk(s))

\* the seven removals, in the order of the source
RemoveIssues(s, prefixes) ==
  Sub("\\s*ISSUE\\s*", <<" ">>,
    Sub("ISSUE:\\s*", <<>>,
      Sub("ISSUE\\s*-\\s*", <<>>,
        Sub("\\s+and\\s+ISSUE\\s*", <<" ">>,
          Sub("^and\\s+ISSUE\\s*-\\s*", <<>>,
            Sub("^and\\s+ISSUE\\s*", <<>>,
              Sub("^ISSUE:\\s*", <<>>, s, prefixes),
              prefixes),
            prefixes),
          prefixes),
        prefixes),
      prefixes),
    prefixes)

\* the clean-up of spaces and punctuation, then strip()
CleanUp(s) ==
  Strip(Sub("\\s*[,\\-:]\\s*$", <<>>,
          Sub("^\\s*[,\\-:]\\s*", <<>>,
            Sub("\\s+", <<" ">>, s, <<>>),
            <<>>),
          <<>>))

\* re.search(issue_pattern, subject)
HasIssue(s, prefixes) == \E i \in 1..Len(s) : IssueEnd(s, i, prefixes) # 0

\* clean_subject without the test of issuePrefixes
CleanUnguarded(subject, config) ==
  CleanUp(RemoveIssues(subject, IF config.issuePrefixes = <<>> THEN <<<<>>>>
                                ELSE config.issuePrefixes[1]))

clean_subject(subject, config) ==
  IF ~HasPrefixes(config) THEN subject
  ELSE IF HasIssue(subject, config.issuePrefixes[1])
  THEN CleanUp(RemoveIssues(subject, config.issuePrefixes[1]))
  ELSE subject

(* ------------------------------------------------------------------ *)
(* consolidate_requirements.py: parse_dependency and                   *)
(* consolidate_profile_requirements                                    *)
(* ------------------------------------------------------------------ *)
IsNameChar(c) ==
  c \in LowerLetters \cup UpperLetters \cup Digits \cup {"_", ".", "-"}

\* pkg_name.lower().replace("_", "-").replace(".", "-")
NormalName(name) ==
  [i \in DOMAIN name |->
     IF name[i] \in {"_", "."} THEN "-" ELSE LowerChar(name[i])]

\* the index of the first ";" of s, 0 without one
FirstSemi(s) ==
  IF \E i \in DOMAIN s : s[i] = ";"
  THEN CHOOSE i \in DOMAIN s : s[i] = ";" /\ \A h \in 1..(i - 1) : s[h] # ";"
  ELSE 0

\* the end of the piece of s that starts at index a and runs to the next ";"
PieceEnd(s, a) ==
  CHOOSE e \in (a - 1)..Len(s) :
    /\ \A h \in a..e : s[h] # ";"
    /\ e = Len(s) \/ s[e + 1] = ";"

\* dep_string.split(";")[0].strip(), or dep_string.strip()
DepPart(dep) ==
  IF FirstSemi(dep) # 0 THEN Strip(Slice(dep, 1, FirstSemi(dep) - 1)) ELSE Strip(dep)

\* dep_string.split(";")[1].strip(), a sequence of no marker (None) or one
Marker(dep) ==
  IF FirstSemi(dep) # 0
  THEN <<Strip(Slice(dep, FirstSemi(dep) + 1, PieceEnd(dep, FirstSemi(dep) + 1)))>>
  ELSE <<>>

\* [a-zA-Z0-9_.-]+ from the start of s: the index of its last character
NameEnd(s) ==
  CHOOSE n \in 0..Len(s) :
    /\ \A h \in 1..n : IsNameChar(s[h])
    /\ n = Len(s) \/ ~IsNameChar(s[n + 1])

\* (==|>=|<=|>|<|!=|~=), the alternatives in their order
Operators ==
  <<<<"=", "=">>, <<">", "=">>, <<"<", "=">>, <<">">>, <<"<">>,
    <<"!", "=">>, <<"~", "=">>>>

\* the operator at index i of s is Operators[k] and (.+)$ matches after it
OperatorFits(s, i, k) ==
  OccursAt(s, Operators[k], i) /\ i + Len(Operators[k]) <= Len(s)

Matches(s) ==
  NameEnd(s) >= 1 /\ \E k \in DOMAIN Operators : OperatorFits(s, NameEnd(s) + 1, k)

OperatorOf(s) ==
  Operators[CHOOSE k \in DOMAIN Operators :
              /\ OperatorFits(s, NameEnd(s) + 1, k)
              /\ \A h \in 1..(k - 1) : ~OperatorFits(s, NameEnd(s) + 1, h)]

\* The parsed dependency; operator and version are None without a match.
ParsedPart(s, marker) ==
  IF Matches(s)
  THEN [name |-> NormalName(Slice(s, 1, NameEnd(s))),
        operator |-> OperatorOf(s),
        version |-> Strip(Slice(s, NameEnd(s) + 1 + Len(OperatorOf(s)), Len(s))),
        marker |-> marker]
  ELSE [name |-> NormalName(s), operator |-> None, version |-> None,
        marker |-> marker]

parse_dependency(dep_string) == ParsedPart(DepPart(dep_string), Marker(dep_string))

\* version.parse reads the versions that are numbers separated by dots as
\* releases.  For any other modelled version text it raises InvalidVersion,
\* or, with a packaging library older than 22 (legacy), returns a
\* LegacyVersion, which is less than every release.
IsRelease(v) ==
  /\ v # <<>>
  /\ \A i \in DOMAIN v : IsDigit(v[i]) \/ v[i] = "."
  /\ v[1] # "." /\ v[Len(v)] # "."
  /\ \A i \in 1..(Len(v) - 1) : ~(v[i] = "." /\ v[i + 1] = ".")

RECURSIVE Release(_)
Release(v) ==
  IF DigitsEnd(v, 1) = Len(v) THEN <<NatOf(v)>>
  ELSE <<NatOf(Slice(v, 1, DigitsEnd(v, 1)))>>
       \o Release(Slice(v, DigitsEnd(v, 1) + 2, Len(v)))

Segment(r, i) == IF i <= Len(r) THEN r[i] ELSE 0

\* a < b for two releases, missing segments counting as 0
ReleaseLess(a, b) ==
  \E i \in 1..(Len(a) + Len(b)) :
    /\ Segment(a, i) < Segment(b, i)
    /\ \A h \in 1..(i - 1) : Segment(a, h) = Segment(b, h)

\* v < w for two parsed version texts
VersionLess(v, w) ==
  IF IsRelease(v) /\ IsRelease(w) THEN ReleaseLess(Release(v), Release(w))
  ELSE IF IsRelease(w) THEN TRUE
  ELSE IF IsRelease(v) THEN FALSE
  ELSE StrLess(v, w)

\* the entry appended to parsed_deps[pkg_name] for a dependency, with the
\* name it is filed under
Entry(dep, parsed) ==
  [name |-> parsed.name, operator |-> parsed.operator, version |-> parsed.version,
   marker |-> parsed.marker, original |-> dep]

Entries(deps) == [i \in DOMAIN deps |-> Entry(deps[i], parse_dependency(deps[i]))]

\* parsed_deps[pkg_name]
VersionsOf(entries, pkg_name) ==
  LET Named(e) == e.name = pkg_name
  IN  SelectSeq(entries, Named)

\* the entries that exact_versions holds
ExactVersions(versions, legacy) ==
  LET Exact(e) ==
        /\ e.operator = <<"=", "=">>
        /\ e.version # None
        /\ legacy \/ IsRelease(e.version)
  IN  SelectSeq(versions, Exact)

\* the first of the exact versions instead of the greatest
FirstExact(exact) == exact[1].original

\* max(exact_versions, key=...)[1]: the first of the greatest
MaxExact(exact) ==
  exact[CHOOSE i \in DOMAIN exact :
          /\ \A j \in DOMAIN exact : ~VersionLess(exact[i].version, exact[j].version)
          /\ \A h \in 1..(i - 1) :
               \E j \in DOMAIN exact : VersionLess(exact[h].version, exact[j].version)
       ].original

Kept(versions, exact) ==
  IF Len(versions) = 1 THEN versions[1].original
  ELSE IF exact # <<>> THEN MaxExact(exact)
  ELSE versions[1].original

\* The dict is the sequence of its entries [key, original], in the order in
\* which the names were first met.
RECURSIVE ConsolidateFrom(_, _, _, _)
ConsolidateFrom(entries, legacy, i, consolidated) ==
  IF i > Len(entries) THEN consolidated
  ELSE IF \E k \in DOMAIN consolidated : consolidated[k].key = entries[i].name
  THEN ConsolidateFrom(entries, legacy, i + 1, consolidated)
  ELSE ConsolidateFrom(
         entries, legacy, i + 1,
         Append(consolidated,
                [key |-> entries[i].name,
                 original |->
                   Kept(VersionsOf(entries, entries[i].name),
                        ExactVersions(VersionsOf(entries, entries[i].name), legacy))]))

consolidate_profile_requirements(deps, legacy) ==
  ConsolidateFrom(Entries(deps), legacy, 1, <<>>)

(* ------------------------------------------------------------------ *)
(* The profiles of pyproject.toml: extract_dependencies_by_profile     *)
(* (consolidate_requirements.py) and extract_dependencies              *)
(* (validate_dependencies.py)                                          *)
(* ------------------------------------------------------------------ *)
dev_profile_names ==
  {<<"d", "e", "v">>,
   <<"d", "e", "v", "e", "l", "o", "p", "m", "e", "n", "t">>,
   <<"d", "e", "v", "e", "l", "o", "p">>,
   <<"t", "e", "s", "t">>,
   <<"t", "e", "s", "t", "i", "n", "g">>,
   <<"t", "e", "s", "t", "s">>,
   <<"l", "i", "n", "t">>,
   <<"l", "i", "n", "t", "i", "n", "g">>,
   <<"f", "o", "r", "m", "a", "t">>,
   <<"f", "o", "r", "m", "a", "t", "t", "i", "n", "g">>,
   <<"d", "o", "c", "s">>,
   <<"d", "o", "c", "u", "m", "e", "n", "t", "a", "t", "i", "o", "n">>,
   <<"b", "u", "i", "l", "d">>,
   <<"c", "i">>,
   <<"c", "d">>,
   <<"d", "e", "b", "u", "g">>,
   <<"l", "o", "c", "a", "l">>}

MainName == <<"m", "a", "i", "n">>

\* The parsed file is data.project, a sequence of no or one table (the key
\* is absent or present) with the keys dependencies and optional, each a
\* sequence of no or one value; optional-dependencies is the sequence of its
\* entries [key, deps] in the order of the file.  A dict of profiles is
\* the sequence of its entries [key, deps] in the order of insertion.
HasDependencies(data) == data.project # <<>> /\ data.project[1].dependencies # <<>>
HasOptional(data) == data.project # <<>> /\ data.project[1].optional # <<>>

\* profiles[name] = deps
PutProfile(profiles, name, deps) ==
  IF \E i \in DOMAIN profiles : profiles[i].key = name
  THEN [i \in DOMAIN profiles |->
          IF profiles[i].key = name THEN [key |-> name, deps |-> deps] ELSE profiles[i]]
  ELSE Append(profiles, [key |-> name, deps |-> deps])

\* IsSkipped comparing the name as it is written
IsSkippedAsWritten(profile_name) == profile_name \in dev_profile_names

\* profile_name.lower() in dev_profile_names
IsSkipped(profile_name) == Lower(profile_name) \in dev_profile_names

\* the loop over optional-dependencies from its i-th entry on; with_main are
\* the dependencies put before those of each profile
RECURSIVE OptionalFrom(_, _, _, _)
OptionalFrom(optional, with_main, i, profiles) ==
  IF i > Len(optional) THEN profiles
  ELSE OptionalFrom(
         optional, with_main, i + 1,
         IF IsSkipped(optional[i].key) THEN profiles
         ELSE PutProfile(profiles, optional[i].key, with_main \o optional[i].deps))

main_deps(data) == IF HasDependencies(data) THEN data.project[1].dependencies[1] ELSE <<>>

extract_dependencies_by_profile(data) ==
  IF HasOptional(data)
  THEN OptionalFrom(data.project[1].optional[1], main_deps(data), 1,
                    <<[key |-> MainName, deps |-> main_deps(data)]>>)
  ELSE <<[key |-> MainName, deps |-> main_deps(data)]>>

MainOnly(data) ==
  IF HasDependencies(data)
  THEN <<[key |-> MainName, deps |-> data.project[1].dependencies[1]]>>
  ELSE <<>>

extract_dependencies(data) ==
  IF HasOptional(data)
  THEN OptionalFrom(data.project[1].optional[1], <<>>, 1, MainOnly(data))
  ELSE MainOnly(data)

(* ------------------------------------------------------------------ *)
(* The conflicts between the profiles                                  *)
(* ------------------------------------------------------------------ *)
\* parsed_deps of find_conflicts, profile after profile, as package_map
\* meets its entries
RECURSIVE ParsedFrom(_, _)
ParsedFrom(all_deps, i) ==
  IF i > Len(all_deps) THEN <<>>
  ELSE Entries(all_deps[i].deps) \o ParsedFrom(all_deps, i + 1)

\* the keys of the dict "versions": the versions of the occurrences with
\* the operator == and a version
PinnedVersions(occurrences) ==
  {occurrences[i].version :
     i \in {j \in DOMAIN occurrences :
              /\ occurrences[j].operator = <<"=", "=">>
              /\ occurrences[j].version # None}}

\* the branch "mixed operators": several constraints, and several versions
\* among the occurrences with the operator ==
MixedVersions(occurrences) ==
  IF Cardinality({occurrences[i].operator \o occurrences[i].version :
                    i \in {j \in DOMAIN occurrences : occurrences[j].operator # None}}) > 1
  THEN {occurrences[i].version :
          i \in {j \in DOMAIN occurrences : occurrences[j].operator = <<"=", "=">>}}
  ELSE {}

\* the versions of the conflict appended for a package, none without one
ConflictVersions(occurrences) ==
  IF Len(occurrences) <= 1 THEN {}
  ELSE IF Cardinality(PinnedVersions(occurrences)) > 1 THEN PinnedVersions(occurrences)
  ELSE IF Cardinality(MixedVersions(occurrences)) > 1 THEN MixedVersions(occurrences)
  ELSE {}

\* the loop over package_map, a package at the place of its first entry
RECURSIVE ConflictsFrom(_, _, _)
ConflictsFrom(entries, i, conflicts) ==
  IF i > Len(entries) THEN conflicts
  ELSE ConflictsFrom(
         entries, i + 1,
         IF /\ \A h \in 1..(i - 1) : entries[h].name # entries[i].name
            /\ ConflictVersions(VersionsOf(entries, entries[i].name)) # {}
         THEN Append(conflicts,
                     [package |-> entries[i].name,
                      versions |-> ConflictVersions(VersionsOf(entries, entries[i].name))])
         ELSE conflicts)

find_conflicts(all_deps) == ConflictsFrom(ParsedFrom(all_deps, 1), 1, <<>>)

\* the end of main of the validator once the conflicts are found: the report
\* is written, or the write raises
Report(file, conflicts) ==
  IF file.writable
  THEN [exit_code |-> IF conflicts # <<>> THEN 1 ELSE 0, conflicts |-> conflicts,
        written |-> TRUE]
  ELSE [exit_code |-> 1, conflicts |-> conflicts, written |-> FALSE]

\* main of validate_dependencies.py on a file that can be read or not, with
\* a report file that can be written or not
validator_main(file) ==
  IF ~file.readable
  THEN [exit_code |-> 1, conflicts |-> <<>>, written |-> FALSE]
  ELSE Report(file, find_conflicts(extract_dependencies(file.data)))

(* ------------------------------------------------------------------ *)
(* Custom sections: bump commits and their change commits              *)
(* ------------------------------------------------------------------ *)
\* dict[key] = value on an insertion-ordered dict kept as a sequence of
\* records with a "key" field: an existing key keeps its place
DictPut(d, e) ==
  IF \E i \in DOMAIN d : d[i].key = e.key
  THEN [i \in DOMAIN d |-> IF d[i].key = e.key THEN e ELSE d[i]]
  ELSE Append(d, e)

DictHas(d, k) == \E i \in DOMAIN d : d[i].key = k

DictGet(d, k) == d[CHOOSE i \in DOMAIN d : d[i].key = k]

\* "UI Changes", the name of the legacy uiChanges section
UiChangesName == <<"U", "I", " ", "C", "h", "a", "n", "g", "e", "s">>

RECURSIVE PutCustomSections(_, _, _)
PutCustomSections(acc, sections, i) ==
  IF i > Len(sections) THEN acc
  ELSE PutCustomSections(
         IF sections[i].enabled
         THEN DictPut(acc, [key |-> sections[i].name,
                            tagPrefix |-> sections[i].tagPrefix,
                            bumpCommitPattern |-> sections[i].bumpCommitPattern])
         ELSE acc,
         sections, i + 1)

\* config.uiChanges is a sequence of no or one record (the key is absent or
\* present); config.customSections lists the items of that object in order
_get_custom_sections_config(config) ==
  LET legacy ==
        IF Len(config.uiChanges) = 1 /\ config.uiChanges[1].enabled
        THEN <<[key |-> UiChangesName,
                tagPrefix |-> config.uiChanges[1].tagPrefix,
                bumpCommitPattern |-> config.uiChanges[1].bumpCommitPattern]>>
        ELSE <<>>
  IN PutCustomSections(legacy, config.customSections, 1)

\* s[p..] starts with [0-9]+\.[0-9]+\.[0-9]+
VersionAt(s, p) ==
  \E a \in (p + 1)..Len(s) : \E b \in (a + 2)..Len(s) :
    /\ \A i \in p..(a - 1) : IsDigit(s[i])
    /\ s[a] = "."
    /\ \A i \in (a + 1)..(b - 1) : IsDigit(s[i])
    /\ s[b] = "."
    /\ b + 1 <= Len(s)
    /\ IsDigit(s[b + 1])

\* the end of the run of non-space characters that holds index p
RunEnd(s, p) ==
  CHOOSE e \in p..Len(s) :
    /\ \A i \in p..e : ~IsSpace(s[i])
    /\ e = Len(s) \/ IsSpace(s[e + 1])

\* re.search(re.escape(tag_prefix) + "([0-9]+\.[0-9]+\.[0-9]+[^\s]*)", s):
\* the prefix and group 1 of the leftmost match, None without a match
VersionHit(tag_prefix, s, i) ==
  OccursAt(s, tag_prefix, i) /\ VersionAt(s, i + Len(tag_prefix))

VersionFrom(tag_prefix, s, p) == tag_prefix \o Slice(s, p, RunEnd(s, p))

VersionSearch(tag_prefix, s) ==
  IF \E i \in 1..Len(s) : VersionHit(tag_prefix, s, i)
  THEN VersionFrom(tag_prefix, s,
         Len(tag_prefix) +
           (CHOOSE j \in 1..Len(s) :
              /\ VersionHit(tag_prefix, s, j)
              /\ \A h \in 1..(j - 1) : ~VersionHit(tag_prefix, s, h)))
  ELSE None

\* the generic version indicator of a section without tagPrefix
GenericVersion == <<"v", "e", "r", "s", "i", "o", "n">>

\* The bumpCommitPattern of the modelled configurations is a literal text,
\* so re.search(pattern, subject, re.IGNORECASE) is a case-folded "in".
_is_custom_bump_commit(commit, section_config) ==
  IF section_config.bumpCommitPattern = <<>> THEN None
  ELSE IF Contains(Lower(commit.subject), Lower(section_config.bumpCommitPattern))
  THEN IF section_config.tagPrefix # <<>>
       THEN VersionSearch(section_config.tagPrefix, commit.subject)
       ELSE GenericVersion
  ELSE None

\* acc = [commits |-> custom_commits, versions |-> custom_versions]
\* BumpFound without the test that the commit before is no bump commit
BumpFoundAnyBefore(i, commits, section_config, acc, version) ==
  IF version = None THEN acc
  ELSE [commits |->
          IF i > 1 /\ commits[i - 1] \notin Range(acc.commits)
          THEN Append(acc.commits, commits[i - 1])
          ELSE acc.commits,
        versions |-> Append(acc.versions, version)]

\* the version is appended; the commit before a bump commit is its change
\* commit unless it is listed already or is a bump commit itself
BumpFound(i, commits, section_config, acc, version) ==
  IF version = None THEN acc
  ELSE [commits |->
          IF /\ i > 1
             /\ commits[i - 1] \notin Range(acc.commits)
             /\ _is_custom_bump_commit(commits[i - 1], section_config) = None
          THEN Append(acc.commits, commits[i - 1])
          ELSE acc.commits,
        versions |-> Append(acc.versions, version)]

_process_custom_bump_commit(i, commits, section_config, acc) ==
  BumpFound(i, commits, section_config, acc,
            _is_custom_bump_commit(commits[i], section_config))

RECURSIVE SectionCommitsFrom(_, _, _, _)
SectionCommitsFrom(i, commits, section_config, acc) ==
  IF i > Len(commits) THEN acc
  ELSE SectionCommitsFrom(
         i + 1, commits, section_config,
         IF _is_custom_bump_commit(commits[i], section_config) # None
         THEN _process_custom_bump_commit(i, commits, section_config, acc)
         ELSE acc)

_process_section_commits(commits, section_config) ==
  SectionCommitsFrom(1, commits, section_config,
                     [commits |-> <<>>, versions |-> <<>>])

\* " -> " stands for the arrow (U+2192) between two spaces
Arrow == <<" ", "-", ">", " ">>
UpTo == <<"u", "p", " ", "t", "o", " ">>

\* versions.sort() puts the least text first and the greatest last
\* versions[0] and versions[-1] after versions.sort()
Least(versions) ==
  CHOOSE v \in Range(versions) : \A w \in Range(versions) : ~StrLess(w, v)
Greatest(versions) ==
  CHOOSE v \in Range(versions) : \A w \in Range(versions) : ~StrLess(v, w)

VersionRange(oldest_version, newest_version) ==
  IF oldest_version # newest_version
  THEN oldest_version \o Arrow \o newest_version
  ELSE UpTo \o newest_version

_create_version_range(versions) ==
  VersionRange(Least(versions), Greatest(versions))

_build_section_title(section_name, version_range) ==
  IF version_range # GenericVersion
  THEN section_name \o <<" ">> \o version_range
  ELSE section_name

\* acc = [all |-> all_custom_commits, by_section |-> custom_changes_by_section]
\* found = [commits |-> custom_commits, versions |-> custom_versions]
GroupSection(acc, section_name, found) ==
  IF found.commits # <<>> /\ found.versions # <<>>
  THEN [all |-> acc.all \o found.commits,
        by_section |->
          DictPut(acc.by_section,
                  [key |-> _build_section_title(
                             section_name, _create_version_range(found.versions)),
                   commits |-> found.commits])]
  ELSE acc

RECURSIVE DetectFrom(_, _, _, _)
DetectFrom(k, commits, sections, acc) ==
  IF k > Len(sections) THEN acc
  ELSE DetectFrom(k + 1, commits, sections,
                  GroupSection(acc, sections[k].key,
                               _process_section_commits(commits, sections[k])))

\* SelectSeq(commits, c not in all_custom_commits)
NotIn(commits, others) ==
  LET keep(c) == c \notin Range(others)
  IN SelectSeq(commits, keep)

Separate(commits, found) ==
  [non_custom |-> NotIn(commits, found.all), by_section |-> found.by_section]

DetectIn(commits, sections) ==
  IF sections = <<>>
  THEN [non_custom |-> commits, by_section |-> <<>>]
  ELSE Separate(commits, DetectFrom(1, commits, sections,
                                    [all |-> <<>>, by_section |-> <<>>]))

_detect_custom_changes(commits, config) ==
  DetectIn(commits, _get_custom_sections_config(config))

(* ------------------------------------------------------------------ *)
(* Classification into type sections                                   *)
(* ------------------------------------------------------------------ *)
CiSkipMarker == <<"[", "c", "i", " ", "s", "k", "i", "p", "]">>

\* a dict keyed by type, in insertion order, each value with no commits
RECURSIVE EmptySectionsFrom(_, _, _)
EmptySectionsFrom(i, types, acc) ==
  IF i > Len(types) THEN acc
  ELSE EmptySectionsFrom(
         i + 1, types,
         DictPut(acc, [key |-> types[i].type, section |-> types[i].section,
                       commits |-> <<>>]))

_create_empty_type_sections(config) == EmptySectionsFrom(1, config.types, <<>>)

\* The result is a sequence holding the processed commit, or empty for None.
\* The issues are searched in f"{scope or ''} {subject}".
Processed(commit, parsed, config) ==
  IF parsed.type = None THEN <<>>
  ELSE <<[type |-> parsed.type,
          hash |-> commit.hash,
          full_hash |-> commit.full_hash,
          subject |-> clean_subject(parsed.subject, config),
          pr_number |-> IF parsed.pr_number # None
                        THEN parsed.pr_number ELSE commit.pr_number,
          issue_numbers |->
            extract_issue_numbers(parsed.scope \o <<" ">> \o parsed.subject, config),
          author |-> commit.author]>>

\* _process_single_commit without the [ci skip] test
ProcessSingleNoSkip(commit, config) ==
  Processed(commit, parse_commit_message(commit.subject), config)

_process_single_commit(commit, config) ==
  IF Contains(commit.subject, CiSkipMarker) THEN <<>>
  ELSE Processed(commit, parse_commit_message(commit.subject), config)

\* the processed commit without its "type" key
PopType(p) ==
  [hash |-> p.hash, full_hash |-> p.full_hash, subject |-> p.subject,
   pr_number |-> p.pr_number, issue_numbers |-> p.issue_numbers,
   author |-> p.author]

\* AddProcessed assigning the commit to the section instead of appending it
AddProcessedAssign(sections, processed) ==
  IF processed # <<>> /\ DictHas(sections, processed[1].type)
  THEN [i \in DOMAIN sections |->
          IF sections[i].key = processed[1].type
          THEN [sections[i] EXCEPT !.commits = <<PopType(processed[1])>>]
          ELSE sections[i]]
  ELSE sections

\* the processed commit, if any, is appended to the section of its type
AddProcessed(sections, processed) ==
  IF processed # <<>> /\ DictHas(sections, processed[1].type)
  THEN [i \in DOMAIN sections |->
          IF sections[i].key = processed[1].type
          THEN [sections[i] EXCEPT !.commits = Append(@, PopType(processed[1]))]
          ELSE sections[i]]
  ELSE sections

RECURSIVE _add_commits_to_sections(_, _, _)
_add_commits_to_sections(commits, config, sections) ==
  IF commits = <<>> THEN sections
  ELSE _add_commits_to_sections(
         Tail(commits), config,
         AddProcessed(sections, _process_single_commit(Head(commits), config)))

\* the type sections of a list of commits
Classify(commits, config) ==
  _add_commits_to_sections(commits, config, _create_empty_type_sections(config))

ClassifyDetected(detected, config) ==
  [non_custom |-> detected.non_custom,
   by_section |-> detected.by_section,
   type_sections |-> Classify(detected.non_custom, config),
   custom_sections |->
     [i \in DOMAIN detected.by_section |->
        [key |-> detected.by_section[i].key,
         sections |-> Classify(detected.by_section[i].commits, config)]]]

process_commits(commits, config) ==
  ClassifyDetected(_detect_custom_changes(commits, config), config)

(* ------------------------------------------------------------------ *)
(* Rendering                                                           *)
(* ------------------------------------------------------------------ *)
\* The release notes are the sequence of their lines.  A line is a record
\* [kind, text, commit]: a heading ("##" or "###" and its title), a commit
\* line ("*" and the processed commit it is formatted from), an empty line
\* ("") or a line of plain text ("text").
NoCommitsText == 
  <<"N", "o", " ", "c", "o", "m", "m", "i", "t", "s", " ", "f", "o", "u", "n", "d", " ", "i", "n", " ", "t", "h", "i", "s", " ", "r", "e", "l", "e", "a", "s", "e", ".">>

Heading(prefix, title) ==
  [kind |-> prefix, text |-> title, commit |-> <<>>, issue_links |-> {}]
BlankLine == [kind |-> "", text |-> <<>>, commit |-> <<>>, issue_links |-> {}]
TextLine(t) == [kind |-> "text", text |-> t, commit |-> <<>>, issue_links |-> {}]

\* str.replace(old, new) from index i on, old not empty
RECURSIVE ReplaceFrom(_, _, _, _)
ReplaceFrom(s, old, new, i) ==
  IF i > Len(s) THEN <<>>
  ELSE IF OccursAt(s, old, i)
  THEN new \o ReplaceFrom(s, old, new, i + Len(old))
  ELSE <<s[i]>> \o ReplaceFrom(s, old, new, i + 1)

\* str.replace(old, new); an empty old is found before every character
\* and at the end
RECURSIVE Interleave(_, _, _)
Interleave(s, new, i) ==
  IF i > Len(s) THEN new ELSE new \o <<s[i]>> \o Interleave(s, new, i + 1)

Replace(s, old, new) ==
  IF old = <<>> THEN Interleave(s, new, 1) ELSE ReplaceFrom(s, old, new, 1)

PrefixMark == <<"{", "{", "p", "r", "e", "f", "i", "x", "}", "}">>
IdMark == <<"{", "{", "i", "d", "}", "}">>

HasUrlFormat(config) == config.issueUrlFormat # <<>> /\ config.issueUrlFormat[1] # <<>>

\* _should_add_issue_links without the test of issueUrlFormat
ShouldAddWithoutUrl(commit, config) ==
  commit.issue_numbers # {} /\ HasPrefixes(config)

_should_add_issue_links(commit, config) ==
  /\ commit.issue_numbers # {}
  /\ HasPrefixes(config)
  /\ HasUrlFormat(config)

\* the first prefix the issue starts with, as the inner loop finds it
FirstPrefix(issue, prefixes) ==
  CHOOSE k \in DOMAIN prefixes :
    /\ OccursAt(issue, prefixes[k], 1)
    /\ \A h \in 1..(k - 1) : ~OccursAt(issue, prefixes[h], 1)

IssueLink(issue, prefix, template) ==
  <<"[">> \o issue \o <<"]", "(">>
  \o Replace(Replace(template, PrefixMark, prefix), IdMark, Replace(issue, prefix, <<>>))
  \o <<")">>

\* The links of the issues that start with a configured prefix.  The list
\* follows commit["issue_numbers"], whose order is that of a set, and is
\* kept as the set of its links.  A configuration without issueUrlFormat
\* has no template: the source would raise KeyError, and only
\* _should_add_issue_links keeps it from being asked.
_build_issue_links(commit, config) ==
  {IssueLink(issue,
             config.issuePrefixes[1][FirstPrefix(issue, config.issuePrefixes[1])],
             IF config.issueUrlFormat = <<>> THEN <<>> ELSE config.issueUrlFormat[1]) :
     issue \in {n \in commit.issue_numbers :
                  \E k \in DOMAIN config.issuePrefixes[1] :
                    OccursAt(n, config.issuePrefixes[1][k], 1)}}

format_commit_line(commit, config) ==
  [kind |-> "*", text |-> commit.subject, commit |-> <<commit>>,
   issue_links |-> IF _should_add_issue_links(commit, config)
                   THEN _build_issue_links(commit, config)
                   ELSE {}]

_generate_section_for_type(type_data, config, header_prefix) ==
  IF type_data.commits = <<>> THEN <<>>
  ELSE <<Heading(header_prefix, type_data.section), BlankLine>>
       \o [i \in DOMAIN type_data.commits |->
             format_commit_line(type_data.commits[i], config)]
       \o <<BlankLine>>

\* SectionsFrom going through config["types"] from its end
RECURSIVE SectionsBackwards(_, _, _, _)
SectionsBackwards(i, type_sections, config, header_prefix) ==
  IF i > Len(config.types) THEN <<>>
  ELSE SectionsBackwards(i + 1, type_sections, config, header_prefix)
       \o (IF DictHas(type_sections, config.types[i].type)
           THEN _generate_section_for_type(
                  DictGet(type_sections, config.types[i].type), config, header_prefix)
           ELSE <<>>)

\* the sections of config["types"], in that order, looked up in type_sections
RECURSIVE SectionsFrom(_, _, _, _)
SectionsFrom(i, type_sections, config, header_prefix) ==
  IF i > Len(config.types) THEN <<>>
  ELSE (IF DictHas(type_sections, config.types[i].type)
        THEN _generate_section_for_type(
               DictGet(type_sections, config.types[i].type), config, header_prefix)
        ELSE <<>>)
       \o SectionsFrom(i + 1, type_sections, config, header_prefix)

\* has_commits is set when a section is not empty, which is when the
\* content is not
WithFlag(content) == [content |-> content, has_commits |-> content # <<>>]

_generate_main_sections(type_sections, config) ==
  WithFlag(SectionsFrom(1, type_sections, config, "##"))

Titled(section_title, custom_content) ==
  IF custom_content # <<>>
  THEN <<Heading("##", section_title), BlankLine>> \o custom_content
  ELSE <<>>

RECURSIVE CustomFrom(_, _, _)
CustomFrom(k, sections, config) ==
  IF k > Len(sections) THEN <<>>
  ELSE Titled(sections[k].key, SectionsFrom(1, sections[k].sections, config, "###"))
       \o CustomFrom(k + 1, sections, config)

_generate_custom_sections(sections, config) ==
  WithFlag(CustomFrom(1, sections, config))

\* Combine without the placeholder
CombineNoPlaceholder(main, custom) == main.content \o custom.content

Combine(main, custom) ==
  IF ~(main.has_commits \/ custom.has_commits)
  THEN <<TextLine(NoCommitsText)>>
  ELSE main.content \o custom.content

generate_content(sections, custom, config) ==
  Combine(_generate_main_sections(sections, config),
          _generate_custom_sections(custom, config))

(* ------------------------------------------------------------------ *)
(* The remote repository and the configurations                        *)
(* ------------------------------------------------------------------ *)
feat == <<"f", "e", "a", "t">>
fix == <<"f", "i", "x">>
ci == <<"c", "i">>
Features == <<"F", "e", "a", "t", "u", "r", "e", "s">>
BugFixes == <<"B", "u", "g", " ", "F", "i", "x", "e", "s">>
Integration == <<"C", "o", "n", "t", "i", "n", "u", "o", "u", "s", " ", "I", "n", "t", "e", "g", "r", "a", "t", "i", "o", "n">>
Added == <<"A", "d", "d", "e", "d">>

\* a commit node of the GraphQL answer: prs are the numbers of
\* associatedPullRequests.nodes, author is empty for a null author
GraphNode(id, headline, prs, author) ==
  [oid |-> <<id, "full">>, abbreviatedOid |-> id, messageHeadline |-> headline,
   prs |-> prs, author |-> author]

NodePool ==
  { GraphNode("c1", <<"f", "e", "a", "t", ":", " ", "a">>, <<>>, <<"ann">>),
    GraphNode("c2", <<"f", "i", "x", "(", "x", ")", ":", " ", "b", " ", "(", "#", "7", ")">>, <<3, 4>>, <<"bob">>),
    GraphNode("c3", <<"f", "e", "a", "t", ":", "a">>, <<5>>, <<>>),
    GraphNode("c4", <<"f", "e", "a", "t", ":", " ", "r", " ", "[", "c", "i", " ", "s", "k", "i", "p", "]">>, <<>>, <<"bot">>),
    GraphNode("c5", <<"c", "i", ":", " ", "B", "u", "m", "p", " ", "v", "1", ".", "9", ".", "0">>, <<>>, <<"bot">>),
    GraphNode("c6", <<"c", "i", ":", " ", "b", "u", "m", "p", " ", "v", "1", ".", "1", "0", ".", "0", " ", "x">>, <<12>>, <<"bot">>) }

BumpText == <<"b", "u", "m", "p">>
BumpTenText == <<"b", "u", "m", "p", " ", "v", "1", ".", "1", "0">>
VPrefix == <<"v">>
ApiName == <<"A", "p", "i">>

TypeEntry(t, title) == [type |-> t, section |-> title]
UiChanges(on) == [enabled |-> on, tagPrefix |-> VPrefix, bumpCommitPattern |-> BumpText]
CustomSection(name, on, prefix, pattern) ==
  [name |-> name, enabled |-> on, tagPrefix |-> prefix, bumpCommitPattern |-> pattern]

\* the contents of the configuration file, each with a "types" key and
\* without issuePrefixes and issueUrlFormat
ConfigSet ==
  { [types |-> <<TypeEntry(feat, Features), TypeEntry(fix, BugFixes),
                 TypeEntry(ci, Integration)>>,
     uiChanges |-> <<>>,
     customSections |-> <<CustomSection(ApiName, FALSE, VPrefix, BumpText)>>,
     issuePrefixes |-> <<>>,
     issueUrlFormat |-> <<>>],
    [types |-> <<TypeEntry(ci, Integration), TypeEntry(feat, Features)>>,
     uiChanges |-> <<UiChanges(TRUE)>>,
     customSections |-> <<>>,
     issuePrefixes |-> <<>>,
     issueUrlFormat |-> <<>>],
    [types |-> <<TypeEntry(fix, BugFixes), TypeEntry(feat, Features)>>,
     uiChanges |-> <<UiChanges(FALSE)>>,
     customSections |-> <<CustomSection(ApiName, TRUE, <<>>, BumpText)>>,
     issuePrefixes |-> <<>>,
     issueUrlFormat |-> <<>>],
    [types |-> <<TypeEntry(feat, Features), TypeEntry(fix, BugFixes),
                 TypeEntry(feat, Added)>>,
     uiChanges |-> <<UiChanges(TRUE)>>,
     customSections |-> <<CustomSection(ApiName, TRUE, <<>>, BumpTenText)>>,
     issuePrefixes |-> <<>>,
     issueUrlFormat |-> <<>>] }

\* The configuration file: absent, or present with contents that are no
\* JSON or cannot be read (json empty), or present with a JSON object whose
\* "types" key is absent (empty) or holds a list.
AbsentFile == [exists |-> FALSE, json |-> <<>>]
UnreadableFile == [exists |-> TRUE, json |-> <<>>]
FileOf(object) == [exists |-> TRUE, json |-> <<object>>]
WithTypes(c) == FileOf([c EXCEPT !.types = <<c.types>>])
WithoutTypes(c) == FileOf([c EXCEPT !.types = <<>>])

\* the "types" of the configuration returned when there is no file
DefaultTypes ==
  <<TypeEntry(<<"f", "e", "a", "t">>,
               <<"F", "e", "a", "t", "u", "r", "e", "s">>),
     TypeEntry(<<"f", "i", "x">>,
               <<"B", "u", "g", " ", "F", "i", "x", "e", "s">>),
     TypeEntry(<<"c", "i">>,
               <<"C", "o", "n", "t", "i", "n", "u", "o", "u", "s", " ", "I", "n", "t", "e", "g", "r", "a", "t", "i", "o", "n">>),
     TypeEntry(<<"d", "e", "p", "s">>,
               <<"D", "e", "p", "e", "n", "d", "e", "n", "c", "i", "e", "s">>),
     TypeEntry(<<"c", "h", "o", "r", "e">>,
               <<"C", "h", "o", "r", "e", "s">>),
     TypeEntry(<<"b", "u", "i", "l", "d">>,
               <<"B", "u", "i", "l", "d">>),
     TypeEntry(<<"d", "o", "c", "s">>,
               <<"D", "o", "c", "u", "m", "e", "n", "t", "a", "t", "i", "o", "n">>),
     TypeEntry(<<"s", "t", "y", "l", "e">>,
               <<"S", "t", "y", "l", "e">>),
     TypeEntry(<<"r", "e", "f", "a", "c", "t", "o", "r">>,
               <<"R", "e", "f", "a", "c", "t", "o", "r", "i", "n", "g">>),
     TypeEntry(<<"p", "e", "r", "f">>,
               <<"P", "e", "r", "f", "o", "r", "m", "a", "n", "c", "e">>),
     TypeEntry(<<"t", "e", "s", "t">>,
               <<"T", "e", "s", "t", "s">>)>>

\* the "types" given to a file that has none
RequiredTypes == <<TypeEntry(feat, Features), TypeEntry(fix, BugFixes)>>

\* load_version_config: the configuration returned, none when the process
\* exits instead
load_version_config(file) ==
  IF ~file.exists
  THEN <<[types |-> DefaultTypes, uiChanges |-> <<>>, customSections |-> <<>>,
          issuePrefixes |-> <<>>, issueUrlFormat |-> <<>>]>>
  ELSE IF file.json = <<>> THEN <<>>
  ELSE <<[file.json[1] EXCEPT
            !.types = IF file.json[1].types = <<>> THEN RequiredTypes
                      ELSE file.json[1].types[1]]>>

\* The remote either answers a comparison of at most MaxCommits commits of
\* NodePool, every page before the last holding a commit, or it answers a
\* long comparison, of which the model keeps the commits of LongPool: its
\* pages may hold none of them and may go on past the page limit.
LongPool == {n \in NodePool : n.abbreviatedOid \in {"c1", "c2"}}

Remotes == {[pool |-> NodePool, long |-> FALSE], [pool |-> LongPool, long |-> TRUE]}

FromRef == "v1.0.0"
EmptyRef == ""
LatestTag == "v0.9.0"

(* ------------------------------------------------------------------ *)
(* Fetching the commits                                                *)
(* ------------------------------------------------------------------ *)
_extract_commit_from_node(node) ==
  [hash |-> node.abbreviatedOid,
   full_hash |-> node.oid,
   subject |-> node.messageHeadline,
   author |-> IF node.author # <<>> THEN node.author[1] ELSE "Unknown",
   pr_number |-> IF node.prs # <<>> THEN Str(node.prs[1]) ELSE None]

\* AppendPage putting the page before the commits gathered so far
PrependPage(commits, nodes) ==
  [i \in DOMAIN nodes |-> _extract_commit_from_node(nodes[i])] \o commits

\* for node in nodes: commits.append(_extract_commit_from_node(node))
AppendPage(commits, nodes) ==
  commits \o [i \in DOMAIN nodes |-> _extract_commit_from_node(nodes[i])]

\* LoopContinues with the limit off by one
LoopContinuesOneMore(has_next, pages) == has_next /\ pages <= MaxPages

\* the condition of the while loop of _get_commits_with_prs_graphql
LoopContinues(has_next, pages) == has_next /\ pages < MaxPages

\* RefNotFoundTarget falling back whichever ref is missing
RefNotFoundAlwaysFallback(is_base_ref, n) ==
  IF n = 1 THEN "lookup" ELSE "exit"

\* where get_commits_between_refs goes on a RefNotFoundError of an attempt
RefNotFoundTarget(is_base_ref, n) ==
  IF n = 1 /\ is_base_ref THEN "lookup" ELSE "exit"

VARIABLES
  remote,          \* the remote repository, one of Remotes
  pc,              \* where generate_release_notes stands
  exit_code,       \* -1 while running, then the exit status of the process
  config,          \* the loaded configuration
  environment,     \* GITHUB_TOKEN and GITHUB_REPOSITORY as _validate_environment
                   \* finds them: "unset", "empty" or "set"; "unread" before
  base_ref,        \* the baseRef variable of the running fetch attempt
  commits,         \* the commits list of the attempt, then the fetched list
  has_next_page,
  cursor,          \* 0 is None; the remote names the cursor of its k-th page k
  page_count,
  non_custom_commits,         \* the two results of _detect_custom_changes
  custom_changes_by_section,
  type_sections,
  custom_sections,
  release_notes,
  output_file,     \* the lines of the output file, or <<>> when there is none
  github_output,   \* the lines of the file GITHUB_OUTPUT names
  output_channel,  \* "none" before the write, then what became of GITHUB_OUTPUT:
                   \* "unset", "appended" or "failed" (OSError, caught)
  \* what the remote saw and answered, recorded to state the properties
  attempts,        \* the fetch attempts started
  lookups,         \* the latest-release lookups made
  tag_found,       \* the lookup found a release tag
  ref_errors,      \* the refs reported missing, "base" or "head", in order
  query_failed,    \* a request raised, or its answer had no repository data
  requests,        \* the page requests of the running attempt
  last_after,      \* the "after" variable of the last request
  last_page_end,   \* some page of the attempt reported hasNextPage false
  received,        \* the nodes of the pages of the attempt, in order received
  call             \* a call of one function of the scripts on its own: the
                   \* function, its arguments and, once made, its result

vars ==
  <<remote, pc, exit_code, config, environment, base_ref, commits,
    has_next_page, cursor, page_count, non_custom_commits, custom_changes_by_section, type_sections, custom_sections,
    release_notes, output_file, github_output, output_channel, attempts, lookups,
    tag_found, ref_errors, query_failed, requests, last_after, last_page_end, received,
    call>>

\* what the two files hold before the run
OldNotes == <<TextLine(<<"o", "l", "d">>)>>
OldOutput == <<[key |-> "earlier", value |-> <<>>]>>

NoConfig == [types |-> <<>>, uiChanges |-> <<>>, customSections |-> <<>>]

Unread == [GITHUB_TOKEN |-> "unread", GITHUB_REPOSITORY |-> "unread"]

\* generate_release_notes runs; no function is called on its own
NoCall == [fn |-> "none"]

\* the variables of generate_release_notes before it runs
RunStart ==
  /\ pc = "start"
  /\ exit_code = -1
  /\ config = NoConfig
  /\ environment = Unread
  /\ base_ref = FromRef
  /\ commits = <<>>
  /\ has_next_page = TRUE
  /\ cursor = 0
  /\ page_count = 0
  /\ non_custom_commits = <<>>
  /\ custom_changes_by_section = <<>>
  /\ type_sections = <<>>
  /\ custom_sections = <<>>
  /\ release_notes = <<>>
  /\ output_file = OldNotes
  /\ github_output = OldOutput
  /\ output_channel = "none"
  /\ query_failed = FALSE
  /\ attempts = 0
  /\ lookups = 0
  /\ tag_found = FALSE
  /\ ref_errors = <<>>
  /\ requests = 0
  /\ last_after = 0
  /\ last_page_end = FALSE
  /\ received = <<>>

Init ==
  /\ remote \in Remotes
  /\ call = NoCall
  /\ RunStart

Exit(code) == pc' = "exit" /\ exit_code' = code

FetchVars ==
  <<base_ref, commits, has_next_page, cursor, page_count, attempts, lookups,
    tag_found, ref_errors, query_failed, requests, last_after, last_page_end,
    received>>
SectionVars ==
  <<non_custom_commits, custom_changes_by_section, type_sections, custom_sections>>
FileVars == <<output_file, github_output, output_channel>>
OutVars == <<remote, environment, call, SectionVars, release_notes, FileVars>>

\* load_version_config reads a configuration file that has a "types" key
LoadConfig ==
  /\ pc = "start"
  /\ \E c \in ConfigSet : config' = load_version_config(WithTypes(c))[1]
  /\ pc' = "env"
  /\ UNCHANGED <<exit_code, FetchVars, OutVars>>

\* load_version_config: the file is no JSON or cannot be read
LoadConfigFails ==
  /\ pc = "start"
  /\ Exit(1)
  /\ UNCHANGED <<config, FetchVars, OutVars>>

\* StartAttempt going on with the list of the attempt before
StartAttemptKeepingCommits(ref) ==
  /\ base_ref' = ref
  /\ commits' = commits
  /\ has_next_page' = TRUE
  /\ cursor' = 0
  /\ page_count' = 0
  /\ attempts' = attempts + 1
  /\ requests' = 0
  /\ last_after' = 0
  /\ last_page_end' = FALSE
  /\ received' = <<>>

\* the start of one call of _get_commits_with_prs_graphql
StartAttempt(ref) ==
  /\ base_ref' = ref
  /\ commits' = <<>>
  /\ has_next_page' = TRUE
  /\ cursor' = 0
  /\ page_count' = 0
  /\ attempts' = attempts + 1
  /\ requests' = 0
  /\ last_after' = 0
  /\ last_page_end' = FALSE
  /\ received' = <<>>

\* Missing taking only the unset variable for missing
MissingWhenUnset(value) == value = "unset"

\* "if not github_token", "if not github_repo": None and "" are both false
Missing(value) == value \in {"unset", "empty"}

\* _validate_environment, then the first call of the fetch with the from_ref
\* given, which may be empty
ValidateEnvironment ==
  /\ pc = "env"
  /\ \E token \in {"unset", "empty", "set"}, repo \in {"unset", "empty", "set"} :
       /\ environment' = [GITHUB_TOKEN |-> token, GITHUB_REPOSITORY |-> repo]
       /\ IF ~Missing(token) /\ ~Missing(repo)
          THEN /\ pc' = "fetch"
               /\ \E ref \in {FromRef, EmptyRef} :
                    StartAttempt(ref)
               /\ UNCHANGED <<exit_code, lookups, tag_found, ref_errors, query_failed>>
          ELSE /\ Exit(1)
               /\ UNCHANGED FetchVars
  /\ UNCHANGED <<config, remote, call, SectionVars, release_notes, FileVars>>

\* one iteration of the loop: the request is answered with a page.  No ref
\* has the empty name, so the remote has no baseTagRef for an empty baseRef
\* and answers no comparison from it.
FetchPage ==
  /\ pc = "fetch"
  /\ LoopContinues(has_next_page, page_count)
  /\ base_ref # EmptyRef
  /\ \E nodes \in DistinctSeqs(remote.pool \ Range(received),
                                 MaxCommits - Len(received)),
        hasNextPage \in BOOLEAN :
          /\ hasNextPage /\ ~remote.long => nodes # <<>>
          /\ commits' = AppendPage(commits, nodes)
          /\ received' = received \o nodes
          /\ has_next_page' = hasNextPage
          /\ last_page_end' = (last_page_end \/ ~hasNextPage)
          /\ cursor' = page_count + 1
  /\ page_count' = page_count + 1
  /\ requests' = requests + 1
  /\ last_after' = cursor
  /\ UNCHANGED <<pc, exit_code, config, base_ref, attempts, lookups, tag_found,
                 ref_errors, query_failed, OutVars>>

\* one iteration of the loop: the answer has no baseTagRef (is_base_ref) or
\* no compare data, and _validate_graphql_response raises RefNotFoundError
FetchRefNotFound ==
  /\ pc = "fetch"
  /\ LoopContinues(has_next_page, page_count)
  /\ \E is_base_ref \in BOOLEAN :
       /\ base_ref = EmptyRef => is_base_ref
       /\ ref_errors' = Append(ref_errors, IF is_base_ref THEN "base" ELSE "head")
       /\ pc' = RefNotFoundTarget(is_base_ref, attempts)
       /\ exit_code' = IF pc' = "exit" THEN 1 ELSE exit_code
  /\ requests' = requests + 1
  /\ last_after' = cursor
  /\ UNCHANGED <<config, base_ref, commits, has_next_page, cursor, page_count,
                 attempts, lookups, tag_found, query_failed, last_page_end,
                 received, OutVars>>

\* QueryErrorTarget going on with the commits of the pages before
QueryErrorKeepsPages(gathered) == IF gathered # <<>> THEN "process" ELSE "exit"

\* "except Exception" of the loop and the missing repository data: sys.exit(1)
QueryErrorTarget(gathered) == "exit"

\* one iteration of the loop: the query raises, or the answer has no
\* repository data
FetchError ==
  /\ pc = "fetch"
  /\ LoopContinues(has_next_page, page_count)
  /\ pc' = QueryErrorTarget(commits)
  /\ exit_code' = IF pc' = "exit" THEN 1 ELSE exit_code
  /\ query_failed' = TRUE
  /\ requests' = requests + 1
  /\ last_after' = cursor
  /\ UNCHANGED <<config, base_ref, commits, has_next_page, cursor, page_count,
                 attempts, lookups, tag_found, ref_errors, last_page_end,
                 received, OutVars>>

\* get_latest_release_tag, then the retry with the tag or the exit without
LatestRelease ==
  /\ pc = "lookup"
  /\ lookups' = lookups + 1
  /\ \E found \in BOOLEAN :
       /\ tag_found' = found
       /\ IF found
          THEN /\ pc' = "fetch"
               /\ StartAttempt(LatestTag)
               /\ UNCHANGED exit_code
          ELSE /\ Exit(1)
               /\ UNCHANGED <<base_ref, commits, has_next_page, cursor, page_count,
                              attempts, requests, last_after, last_page_end,
                              received>>
  /\ UNCHANGED <<config, ref_errors, query_failed, OutVars>>

\* ReturnsEarly going on with an empty list
ReturnsEarlyNever(fetched) == FALSE

\* "if not commits: return" of generate_release_notes
ReturnsEarly(fetched) == fetched = <<>>

\* the loop ends and the commits are returned to generate_release_notes,
\* which returns at once when there are none
FetchReturn ==
  /\ pc = "fetch"
  /\ ~LoopContinues(has_next_page, page_count)
  /\ IF ReturnsEarly(commits)
     THEN pc' = "done" /\ exit_code' = 0
     ELSE pc' = "process" /\ UNCHANGED exit_code
  /\ UNCHANGED <<config, FetchVars, OutVars>>

SetSections(r) ==
  /\ non_custom_commits' = r.non_custom
  /\ custom_changes_by_section' = r.by_section
  /\ type_sections' = r.type_sections
  /\ custom_sections' = r.custom_sections

ProcessCommits ==
  /\ pc = "process"
  /\ SetSections(process_commits(commits, config))
  /\ pc' = "render"
  /\ UNCHANGED <<remote, environment, call, exit_code, config, FetchVars, release_notes, FileVars>>

GenerateContent ==
  /\ pc = "render"
  /\ release_notes' = generate_content(type_sections, custom_sections, config)
  /\ pc' = "write"
  /\ UNCHANGED <<remote, environment, call, exit_code, config, FetchVars, SectionVars, FileVars>>

\* the two lines appended to the file GITHUB_OUTPUT names
OutputLines(total_commits) ==
  <<[key |-> "release-notes-path", value |-> <<"output_file">>],
    [key |-> "total-commits", value |-> Str(total_commits)]>>

\* GithubOutputAfter opening the file for writing instead of appending
GithubOutputTruncated(old, channel, written, total_commits) ==
  IF channel = "appended" THEN OutputLines(total_commits)
  ELSE IF channel = "failed" THEN SubSeq(OutputLines(total_commits), 1, written)
  ELSE old

\* the file GITHUB_OUTPUT names after write_and_output_results: untouched
\* when the variable is unset, with the two lines appended when the append
\* succeeds, with the lines written before the OSError when it fails
GithubOutputAfter(old, channel, written, total_commits) ==
  IF channel = "appended" THEN old \o OutputLines(total_commits)
  ELSE IF channel = "failed"
  THEN old \o SubSeq(OutputLines(total_commits), 1, written)
  ELSE old

\* WriteOutcome with the OSError of the append not caught by the inner handler
AppendFailureFatal(channel) ==
  IF channel = "failed" THEN [pc |-> "exit", exit_code |-> 1]
  ELSE [pc |-> "done", exit_code |-> 0]

\* how write_and_output_results ends once the output file is written: the
\* OSError of the append is caught and printed as a warning, the function
\* returns and the process ends with status 0
WriteOutcome(channel) == [pc |-> "done", exit_code |-> 0]

Written(outcome) == pc' = outcome.pc /\ exit_code' = outcome.exit_code

\* write_and_output_results: the output file is opened for writing and
\* written; then, when GITHUB_OUTPUT is set, its file is opened for appending
\* and written
WriteResults ==
  /\ pc = "write"
  /\ output_file' = release_notes
  /\ \E channel \in {"unset", "appended", "failed"}, written \in 0..1 :
       /\ output_channel' = channel
       /\ github_output' =
            GithubOutputAfter(github_output, channel, written, Len(commits))
       /\ Written(WriteOutcome(channel))
  /\ UNCHANGED <<remote, environment, call, config, FetchVars, SectionVars, release_notes>>

\* write_and_output_results: opening or writing the output file raises
\* OSError; opening it may have emptied it already
WriteFails ==
  /\ pc = "write"
  /\ \E emptied \in BOOLEAN :
       output_file' = IF emptied THEN <<>> ELSE output_file
  /\ Exit(1)
  /\ UNCHANGED <<remote, environment, call, config, FetchVars, SectionVars, release_notes, github_output,
                 output_channel>>

Next ==
  \/ LoadConfig
  \/ LoadConfigFails
  \/ ValidateEnvironment
  \/ FetchPage
  \/ FetchRefNotFound
  \/ FetchError
  \/ LatestRelease
  \/ FetchReturn
  \/ ProcessCommits
  \/ GenerateContent
  \/ WriteResults
  \/ WriteFails

Spec == Init /\ [][Next]_vars

(* ------------------------------------------------------------------ *)
(* Properties of the fetch                                             *)
(* ------------------------------------------------------------------ *)
\* get_commits_between_refs has returned its list
Returned == pc \in {"process", "render", "write", "done"}

\* the fetch attempt that returned stopped at the page limit
HitPageLimit == requests = MaxPages /\ ~last_page_end

FirstRefError(kind) == ref_errors # <<>> /\ ref_errors[1] = kind

C2_PagingInvariant ==
  /\ requests <= MaxPages
  /\ requests >= 1 => last_after = requests - 1
  /\ Returned => last_page_end \/ requests = MaxPages
  /\ Returned /\ HitPageLimit => Len(commits) = Len(received)

C2_Paging ==
  /\ []C2_PagingInvariant
  /\ [][requests' = requests + 1 => ~last_page_end /\ requests < MaxPages]_vars

\* an attempt stopped by the page limit returned the commits it had
C2_Witness ==
  /\ pc = "done"
  /\ exit_code = 0
  /\ HitPageLimit
  /\ Len(commits) = 2

\* C3: the list a fetch attempt returns without hitting the page limit is
\* the nodes of its pages in the order received, none dropped, duplicated
\* or reordered, each with the number of its first associated pull request
\* or with none.
C3_FetchedList ==
  Returned /\ ~HitPageLimit =>
    /\ Len(commits) = Len(received)
    /\ \A i \in DOMAIN commits :
         /\ commits[i].full_hash = received[i].oid
         /\ commits[i].hash = received[i].abbreviatedOid
         /\ commits[i].subject = received[i].messageHeadline
         /\ commits[i].pr_number =
              IF received[i].prs = <<>> THEN None ELSE Str(received[i].prs[1])

\* several pages were received, with a commit of two pull requests and a
\* commit of none
C3_Witness ==
  /\ Returned
  /\ ~HitPageLimit
  /\ requests >= 2
  /\ \E i \in DOMAIN received : Len(received[i].prs) = 2
  /\ \E i \in DOMAIN received : received[i].prs = <<>>

(* ------------------------------------------------------------------ *)
(* Properties of the classification and of the rendering               *)
(* ------------------------------------------------------------------ *)
\* process_commits has run on the fetched commits
Classified == pc \in {"render", "write"} \/ (pc = "done" /\ commits # <<>>)

\* generate_content has run
Rendered == pc = "write" \/ (pc = "done" /\ commits # <<>>)

\* the full hashes of the commits a dict of type sections holds
HashesIn(sections) ==
  {sections[i].commits[j].full_hash :
     <<i, j>> \in {p \in (DOMAIN sections) \X (1..MaxCommits + 1) :
                    p[2] <= Len(sections[p[1]].commits)}}

RegularHashes == HashesIn(type_sections)

CustomHashes ==
  UNION {HashesIn(custom_sections[k].sections) : k \in DOMAIN custom_sections}

\* the full hashes of the commits that have a line in the release notes
RenderedHashes ==
  {release_notes[i].commit[1].full_hash :
     i \in {j \in DOMAIN release_notes : release_notes[j].kind = "*"}}

\* the commits routed to the custom sections
CustomInput ==
  UNION {Range(custom_changes_by_section[k].commits) :
           k \in DOMAIN custom_changes_by_section}

\* the enabled custom sections of the loaded configuration
EnabledCustom == _get_custom_sections_config(config)

HasCiSkip(c) == Contains(c.subject, CiSkipMarker)
IsConventional(c) == MatchesScoped(c.subject) \/ MatchesUnscoped(c.subject)
ConfiguredTypes == {config.types[i].type : i \in DOMAIN config.types}

\* C4: a commit whose subject contains [ci skip] is in no regular section,
\* in no custom section and on no line of the release notes, whatever the
\* configuration.
C4_CiSkipExcluded ==
  \A i \in DOMAIN commits :
    HasCiSkip(commits[i]) =>
      /\ Classified => commits[i].full_hash \notin RegularHashes \cup CustomHashes
      /\ Rendered => commits[i].full_hash \notin RenderedHashes

\* a [ci skip] commit was routed to a custom section, which holds no commit,
\* beside a regular commit that was rendered
C4_Witness ==
  /\ pc = "done"
  /\ \E c \in CustomInput : HasCiSkip(c)
  /\ CustomHashes = {}
  /\ RenderedHashes # {}

FoundBy(section) == _process_section_commits(commits, section)

\* every custom section that detected change commits has a title of its own
TitlesApart ==
  Len(custom_changes_by_section) =
    Cardinality({k \in DOMAIN EnabledCustom : FoundBy(EnabledCustom[k]).commits # <<>>})

C6_UnparsedExcluded ==
  Classified =>
    \A i \in DOMAIN commits :
      ~IsConventional(commits[i]) =>
        commits[i].full_hash \notin RegularHashes \cup CustomHashes

\* a commit of neither shape was classified beside one that is in a section
C6_Witness ==
  /\ pc = "done"
  /\ \E i \in DOMAIN commits : ~IsConventional(commits[i])
  /\ RegularHashes \cup CustomHashes # {}

\* the only enabled custom section detects commit c as a bump commit
IsBump(c) == _is_custom_bump_commit(c, EnabledCustom[1]) # None

PrecedesBump(i) ==
  /\ i < Len(commits)
  /\ IsBump(commits[i + 1])
  /\ ~IsBump(commits[i])

HashesOf(cs) == {c.full_hash : c \in cs}

NotCustom(c) == c \notin CustomInput

\* C7: with one custom section enabled, a fetched commit is routed to the
\* custom section exactly when the next commit of the fetched list is a
\* detected bump commit and the commit is none itself; the other commits,
\* in their order, are the input of the regular sections; the two inputs
\* are disjoint, cover the fetched list, and each kind of section holds
\* commits of its own input only.
C7_CustomPartition ==
  Classified /\ Len(EnabledCustom) = 1 =>
    /\ \A i \in DOMAIN commits : commits[i] \in CustomInput <=> PrecedesBump(i)
    /\ CustomInput \subseteq Range(commits)
    /\ Range(non_custom_commits) \cap CustomInput = {}
    /\ Range(non_custom_commits) \cup CustomInput = Range(commits)
    /\ non_custom_commits = SelectSeq(commits, NotCustom)
    /\ Len(custom_changes_by_section) <= 1
    /\ RegularHashes \subseteq HashesOf(Range(non_custom_commits))
    /\ CustomHashes \subseteq HashesOf(CustomInput)

\* one commit went to the custom section, a bump commit that comes before
\* another bump commit went to the regular sections
C7_Witness ==
  /\ pc = "done"
  /\ commits # <<>>
  /\ Len(EnabledCustom) = 1
  /\ CustomInput # {}
  /\ \E i \in DOMAIN commits :
       /\ i < Len(commits)
       /\ IsBump(commits[i])
       /\ IsBump(commits[i + 1])
       /\ commits[i] \in Range(non_custom_commits)

MinorAt(s, a) == DigitsEnd(s, a + 2)

\* <<major, minor, patch>> of a version whose numbers start at index p
NumbersAt(s, p, a, b) ==
  <<NatOf(Slice(s, p, a)), NatOf(Slice(s, a + 2, b)),
    NatOf(Slice(s, b + 2, DigitsEnd(s, b + 2)))>>

VersionNumbers(version, tag_prefix) ==
  IF VersionAt(version, Len(tag_prefix) + 1)
  THEN NumbersAt(version, Len(tag_prefix) + 1,
                 DigitsEnd(version, Len(tag_prefix) + 1),
                 MinorAt(version, DigitsEnd(version, Len(tag_prefix) + 1)))
  ELSE <<0, 0, 0>>

TripleLess(x, y) ==
  \/ x[1] < y[1]
  \/ x[1] = y[1] /\ x[2] < y[2]
  \/ x[1] = y[1] /\ x[2] = y[2] /\ x[3] < y[3]

OlderVersion(v, w, tag_prefix) ==
  TripleLess(VersionNumbers(v, tag_prefix), VersionNumbers(w, tag_prefix))

OldestVersion(versions, tag_prefix) ==
  CHOOSE v \in Range(versions) :
    \A w \in Range(versions) : ~OlderVersion(w, v, tag_prefix)

NewestVersion(versions, tag_prefix) ==
  CHOOSE v \in Range(versions) :
    \A w \in Range(versions) : ~OlderVersion(v, w, tag_prefix)

\* the title of a custom section whose range goes from the oldest to the
\* newest version by their numbers
NumericTitle(section, versions) ==
  section.key \o <<" ">> \o
    VersionRange(OldestVersion(versions, section.tagPrefix),
                 NewestVersion(versions, section.tagPrefix))

GroupedNumerically(section, found) ==
  found.commits # <<>> =>
    \E j \in DOMAIN custom_changes_by_section :
      /\ custom_changes_by_section[j].key = NumericTitle(section, found.versions)
      /\ custom_changes_by_section[j].commits = found.commits

\* C8: the change commits of the bump commits of one custom section are
\* grouped in one section whose title is the section's name and the range
\* from the oldest to the newest detected version by major, minor and patch
\* number, or "up to" the version when one version was detected.
C8_NumericVersionRange ==
  Classified =>
    \A k \in DOMAIN EnabledCustom :
      GroupedNumerically(EnabledCustom[k],
                         _process_section_commits(commits, EnabledCustom[k]))

\* the regular part of the release notes ends before the first heading of
\* a custom section, which is followed by an empty line and a "###" heading
IsCustomHeading(j) ==
  /\ release_notes[j].kind = "##"
  /\ j + 2 <= Len(release_notes)
  /\ release_notes[j + 2].kind = "###"

RegularEnd ==
  IF \E j \in DOMAIN release_notes : IsCustomHeading(j)
  THEN (CHOOSE j \in DOMAIN release_notes :
          /\ IsCustomHeading(j)
          /\ \A h \in 1..(j - 1) : ~IsCustomHeading(h)) - 1
  ELSE Len(release_notes)

RegularHeadings == {j \in 1..RegularEnd : release_notes[j].kind = "##"}

TypeHolds(t) ==
  DictHas(type_sections, t) /\ DictGet(type_sections, t).commits # <<>>

NonEmptyTypes == {i \in DOMAIN config.types : TypeHolds(config.types[i].type)}

Rank(S, x) == Cardinality({y \in S : y <= x})

\* the heading at line j and the lines after it are those of type_data
SectionAt(j, type_data) ==
  /\ release_notes[j].text = type_data.section
  /\ j + 2 + Len(type_data.commits) <= RegularEnd
  /\ release_notes[j + 1].kind = ""
  /\ \A m \in DOMAIN type_data.commits :
       /\ release_notes[j + 1 + m].kind = "*"
       /\ release_notes[j + 1 + m].commit = <<type_data.commits[m]>>
  /\ release_notes[j + 2 + Len(type_data.commits)].kind = ""
  /\ \/ j + 2 + Len(type_data.commits) = RegularEnd
     \/ j + 3 + Len(type_data.commits) \in RegularHeadings

\* C9: the headings of the regular sections are, in order, those of the
\* entries of the configuration's types whose type holds a commit, and each
\* heading is followed by one line per commit of its type, in their order.
C9_SectionOrder ==
  Rendered /\ release_notes # <<TextLine(NoCommitsText)>> =>
    /\ Cardinality(RegularHeadings) = Cardinality(NonEmptyTypes)
    /\ RegularHeadings # {} => 1 \in RegularHeadings
    /\ RegularHeadings = {} => RegularEnd = 0
    /\ \A i \in NonEmptyTypes : \A j \in RegularHeadings :
         Rank(NonEmptyTypes, i) = Rank(RegularHeadings, j) =>
           SectionAt(j, DictGet(type_sections, config.types[i].type))

\* two regular sections were rendered whose types the configuration lists
\* in another order than the fetched commits came in
C9_Witness ==
  /\ pc = "done"
  /\ commits # <<>>
  /\ Cardinality(RegularHeadings) >= 2
  /\ \E i, j \in DOMAIN type_sections :
       /\ i < j
       /\ type_sections[i].commits # <<>>
       /\ type_sections[j].commits # <<>>
       /\ \E a, b \in DOMAIN commits :
            /\ a < b
            /\ commits[a].full_hash = type_sections[j].commits[1].full_hash
            /\ commits[b].full_hash = type_sections[i].commits[1].full_hash

IsPlaceholder(line) == line.kind = "text" /\ line.text = NoCommitsText

\* C10: the release notes are never empty; they are the one placeholder
\* line when no regular and no custom section holds a commit, and hold no
\* placeholder line when some section holds a commit.
C10_Placeholder ==
  Rendered =>
    /\ release_notes # <<>>
    /\ RegularHashes \cup CustomHashes = {} =>
         release_notes = <<TextLine(NoCommitsText)>>
    /\ RegularHashes \cup CustomHashes # {} =>
         \A j \in DOMAIN release_notes : ~IsPlaceholder(release_notes[j])

\* commits were fetched, none is in a section, the placeholder was written
C10_Witness ==
  /\ pc = "done"
  /\ exit_code = 0
  /\ commits # <<>>
  /\ RegularHashes \cup CustomHashes = {}
  /\ release_notes = <<TextLine(NoCommitsText)>>
  /\ output_file = release_notes

(* ------------------------------------------------------------------ *)
(* Properties of the writer and of the ways the run ends               *)
(* ------------------------------------------------------------------ *)
\* the step of write_and_output_results that does not leave the rendered
\* text in the output file
NotesWriteFails == pc = "write" /\ output_file' # release_notes

\* C11 as stated: a failure to write the output file and a failure to write
\* GITHUB_OUTPUT both end the process with a non-zero status.
C11_BothWritesFatal ==
  /\ [](output_channel = "failed" => pc = "exit" /\ exit_code >= 1)
  /\ [][NotesWriteFails => pc' = "exit" /\ exit_code' >= 1]_vars

\* C11, amended: a failure to write the output file ends the process with
\* status 1 and leaves GITHUB_OUTPUT alone; a failure to append to
\* GITHUB_OUTPUT is not fatal: the output file holds the rendered text and
\* the process ends with status 0.
C11_OnlyNotesFailureFatal ==
  /\ [](output_channel = "failed" =>
          pc = "done" /\ exit_code = 0 /\ output_file = release_notes)
  /\ [][NotesWriteFails =>
          /\ pc' = "exit"
          /\ exit_code' = 1
          /\ github_output' = github_output
          /\ output_channel' = "none"]_vars

\* the append to GITHUB_OUTPUT failed after one line and the run ended
C11_Witness ==
  /\ output_channel = "failed"
  /\ pc = "done"
  /\ Len(github_output) = Len(OldOutput) + 1

PathLine == [key |-> "release-notes-path", value |-> <<"output_file">>]
TotalLine == [key |-> "total-commits", value |-> Str(Len(commits))]

\* C12: after write_and_output_results the output file holds the rendered
\* text and nothing of its old content; with GITHUB_OUTPUT set, its file
\* holds its old lines followed by the release-notes-path line and the
\* total-commits line; with GITHUB_OUTPUT unset, its file is as it was.
C12_WriterFrame ==
  output_channel # "none" =>
    /\ output_file = release_notes
    /\ output_file # OldNotes
    /\ output_channel = "appended" =>
         github_output = OldOutput \o <<PathLine, TotalLine>>
    /\ output_channel = "unset" => github_output = OldOutput

\* the two lines were appended for a run of three commits
C12_Witness ==
  /\ pc = "done"
  /\ output_channel = "appended"
  /\ Len(commits) = 3
  /\ Len(github_output) = Len(OldOutput) + 2

\* C13: when the fetch returns an empty list, generate_release_notes ends
\* at once with status 0; nothing was rendered, the output file and the
\* file of GITHUB_OUTPUT are as they were.
C13_EmptyListNoFile ==
  Returned /\ commits = <<>> =>
    /\ pc = "done"
    /\ exit_code = 0
    /\ release_notes = <<>>
    /\ output_file = OldNotes
    /\ github_output = OldOutput
    /\ output_channel = "none"

\* the retry with the latest release tag returned no commit after two pages
C13_Witness ==
  /\ pc = "done"
  /\ commits = <<>>
  /\ attempts = 2
  /\ requests >= 2

\* the fetch met a fatal error: a request failed, the ending ref was
\* reported missing, the retry reported a ref missing, or no release was
\* found for the fallback
FetchFatal ==
  \/ query_failed
  \/ FirstRefError("head")
  \/ Len(ref_errors) = 2
  \/ lookups = 1 /\ ~tag_found

\* C14: once the fetch has met a fatal error the process has exited with
\* status 1, no further step is taken, and the output file and the file of
\* GITHUB_OUTPUT are as they were.
C14_FetchFatalInvariant ==
  FetchFatal =>
    /\ pc = "exit"
    /\ exit_code = 1
    /\ output_file = OldNotes
    /\ github_output = OldOutput
    /\ output_channel = "none"

C14_FetchFatal ==
  /\ []C14_FetchFatalInvariant
  /\ [][~FetchFatal]_vars

\* a request of the retry failed after a page with commits was received
C14_Witness ==
  /\ query_failed
  /\ attempts = 2
  /\ commits # <<>>
  /\ pc = "exit"

(* ------------------------------------------------------------------ *)
(* Calls of single functions                                           *)
(* ------------------------------------------------------------------ *)
\* Beside the run of generate_release_notes, the pure functions of the
\* scripts are called on their own, on arguments drawn from the sets below.
\* A call is [fn, input, config, done, result, again]: again is the result
\* of the function applied to its own result, for the functions where that
\* is asked.
RunVars ==
  <<remote, pc, exit_code, config, environment, FetchVars, SectionVars, release_notes, FileVars>>

Pending(fn, input, cfg) ==
  [fn |-> fn, input |-> input, config |-> cfg, done |-> FALSE,
   result |-> <<>>, again |-> <<>>]

\* the parts of a commit subject: type, "(scope)" if scoped, the separator,
\* the text and, if suffixed, the gap and "(#pr)"
TypeTexts == {<<"f">>, <<"f", "_", "1">>, <<>>, <<"f", "-">>}
ScopeTexts == {<<"x">>, <<"x", " ", "y">>, <<>>, <<"x", ")">>}
SepTexts == {<<":", " ">>, <<":">>, <<" ", ":", " ">>, <<":", " ", " ">>}
BodyTexts ==
  {<<"a">>, <<"a", " ">>, <<" ", "a">>, <<>>, <<"a", " ", "(", "#", "5", ")">>,
   <<"a", ":", " ", "b">>, <<"(", "#", "5", ")">>, <<"a", "\t">>}
GapTexts == {<<" ">>, <<>>, <<" ", " ">>, <<"\t">>}
PRTexts == {<<"7">>, <<"1", "2">>, <<>>, <<"x">>}

SubjectParts ==
  [type : TypeTexts, scoped : {FALSE}, scope : {<<>>}, sep : SepTexts,
   text : BodyTexts, suffixed : {FALSE}, gap : {<<>>}, pr : {<<>>}]
  \cup
  [type : TypeTexts, scoped : {TRUE}, scope : ScopeTexts, sep : {<<":", " ">>, <<":">>},
   text : BodyTexts, suffixed : {FALSE}, gap : {<<>>}, pr : {<<>>}]
  \cup
  [type : TypeTexts, scoped : {FALSE}, scope : {<<>>}, sep : {<<":", " ">>, <<":">>},
   text : BodyTexts, suffixed : {TRUE}, gap : GapTexts, pr : PRTexts]
  \cup
  [type : {<<"f">>, <<"f", "_", "1">>}, scoped : {TRUE}, scope : ScopeTexts,
   sep : {<<":", " ">>}, text : BodyTexts, suffixed : {TRUE}, gap : GapTexts,
   pr : PRTexts]

\* the subject made of the parts
SubjectOf(c) ==
  c.type
  \o (IF c.scoped THEN <<"(">> \o c.scope \o <<")">> ELSE <<>>)
  \o c.sep \o c.text
  \o (IF c.suffixed THEN c.gap \o <<"(", "#">> \o c.pr \o <<")">> ELSE <<>>)

ParseCalls == {Pending("parse_commit_message", c, <<>>) : c \in SubjectParts}

\* Subjects with issue references are made of at most MaxParts parts.
MaxParts == 3

IssueParts ==
  {<<"j">>, <<" ">>, <<" ", "1">>, <<"j", "-", "1">>, <<"j", " ", "1">>,
   <<"a", "n", "d", " ">>, <<":">>, <<"-">>}

PartLists == UNION {[1..n -> IssueParts] : n \in 0..MaxParts}

RECURSIVE Flatten(_)
Flatten(parts) ==
  IF parts = <<>> THEN <<>> ELSE Head(parts) \o Flatten(Tail(parts))

\* the keys of the configuration that concern issues
IssueConfig(prefixes, format) == [issuePrefixes |-> prefixes, issueUrlFormat |-> format]

JDash == <<"j", "-">>
JSpace == <<"j", " ">>
UrlFormat ==
  <<"u", "/", "{", "{", "p", "r", "e", "f", "i", "x", "}", "}",
    "{", "{", "i", "d", "}", "}">>

\* issuePrefixes absent, empty, or a list of prefixes
PrefixLists == {<<>>, <<<<>>>>, <<<<JDash>>>>, <<<<JSpace>>>>, <<<<JSpace, JDash>>>>}
\* issueUrlFormat absent, empty, or a template
FormatTexts == {<<>>, <<<<>>>>, <<UrlFormat>>}

CleanCalls ==
  {Pending("clean_subject", parts, IssueConfig(prefixes, <<>>)) :
     parts \in PartLists, prefixes \in PrefixLists}

ExtractCalls ==
  {Pending("extract_issue_numbers", parts, IssueConfig(prefixes, <<>>)) :
     parts \in PartLists, prefixes \in PrefixLists}

\* processed commits with no, one or two issue references
IssueSets ==
  {{}, {<<"j", "-", "1">>}, {<<"j", " ", "1">>, <<"j", "-", "2">>}, {<<"#", "3">>}}

FormatCalls ==
  {Pending("format_commit_line",
           [hash |-> "c1", full_hash |-> "c1c1", subject |-> <<"a">>,
            pr_number |-> None, issue_numbers |-> issues, author |-> "ann"],
           IssueConfig(prefixes, format)) :
     issues \in IssueSets, prefixes \in PrefixLists, format \in FormatTexts}

\* A profile lists at most MaxDeps dependencies, each written as its name,
\* operator, version and marker, one after the other.
MaxDeps == 3

Dep(name, operator, version, marker) ==
  [name |-> name, operator |-> operator, version |-> version, marker |-> marker]

EqualsOp == <<"=", "=">>
AtLeastOp == <<">", "=">>

DepPool ==
  { Dep(<<"a">>, EqualsOp, <<"2", ".", "0">>, <<>>),
    Dep(<<"a">>, EqualsOp, <<"2", ".", "5">>, <<>>),
    Dep(<<"a">>, EqualsOp, <<"2", ".", "1", "0">>, <<>>),
    Dep(<<"a">>, EqualsOp, <<"2">>, <<>>),
    Dep(<<"a">>, EqualsOp, <<"3">>, <<";", "m">>),
    Dep(<<"a">>, EqualsOp, <<"x">>, <<>>),
    Dep(<<"a">>, AtLeastOp, <<"9">>, <<>>),
    Dep(<<"a">>, <<>>, <<>>, <<>>),
    Dep(<<"a", "_", "b">>, EqualsOp, <<"1">>, <<>>),
    Dep(<<"a", ".", "b">>, EqualsOp, <<"2">>, <<>>),
    Dep(<<"B">>, EqualsOp, <<"1">>, <<>>),
    Dep(<<"b">>, AtLeastOp, <<"2">>, <<>>) }

DepText(d) == d.name \o d.operator \o d.version \o d.marker

DepLists == UNION {[1..n -> DepPool] : n \in 0..MaxDeps}

ConsolidateCalls ==
  {Pending("consolidate_profile_requirements", deps, [legacy |-> legacy]) :
     deps \in DepLists, legacy \in BOOLEAN}

\* A pyproject.toml has at most MaxProfiles optional profiles.
MaxProfiles == 2

ProfileNames ==
  {<<"d", "e", "v">>, <<"D", "e", "v">>, <<"D", "E", "V">>, <<"a", "p", "i">>, <<"m", "a", "i", "n">>}

\* the dependencies listed under one key
DepChoices ==
  { <<>>,
    <<Dep(<<"a">>, EqualsOp, <<"1">>, <<>>)>>,
    <<Dep(<<"a">>, EqualsOp, <<"2">>, <<>>)>>,
    <<Dep(<<"a">>, AtLeastOp, <<"1">>, <<>>), Dep(<<"B">>, EqualsOp, <<"1">>, <<>>)>>,
    <<Dep(<<"a">>, EqualsOp, <<"1">>, <<>>), Dep(<<"b">>, EqualsOp, <<"2">>, <<>>)>> }

\* optional-dependencies: tables of at most MaxProfiles profiles, the
\* names distinct
OptionalTables ==
  {o \in UNION {[1..n -> [key : ProfileNames, deps : DepChoices]] : n \in 0..MaxProfiles} :
     \A i, j \in DOMAIN o : i # j => o[i].key # o[j].key}

Pyprojects ==
  {[project |-> <<>>]}
  \cup {[project |-> <<[dependencies |-> d, optional |-> o]>>] :
          d \in {<<>>} \cup {<<c>> : c \in DepChoices},
          o \in {<<>>} \cup {<<c>> : c \in OptionalTables}}

\* the file as toml.load returns it, every dependency as its text
TextsOf(deps) == [i \in DOMAIN deps |-> DepText(deps[i])]

TableTexts(o) == [i \in DOMAIN o |-> [key |-> o[i].key, deps |-> TextsOf(o[i].deps)]]

Loaded(data) ==
  IF data.project = <<>> THEN data
  ELSE [project |->
          <<[dependencies |->
               [i \in DOMAIN data.project[1].dependencies |->
                  TextsOf(data.project[1].dependencies[i])],
             optional |->
               [i \in DOMAIN data.project[1].optional |->
                  TableTexts(data.project[1].optional[i])]]>>]

ProfileCalls ==
  {Pending(fn, data, <<>>) :
     fn \in {"extract_dependencies_by_profile", "extract_dependencies"},
     data \in Pyprojects}

\* texts for a prefix that holds a digit: "1-1-2" has "1-2" start inside "1-1"
OneDash == <<"1", "-">>
OverlapParts == {<<"1", "-", "1">>, <<"-", "2">>, <<"j">>, <<"1", "-", "2">>}
OverlapLists == UNION {[1..n -> OverlapParts] : n \in 0..MaxParts}

OverlapCalls ==
  {Pending("extract_issue_numbers", parts, IssueConfig(<<<<OneDash>>>>, <<>>)) :
     parts \in OverlapLists}

\* configuration files: none, an unreadable one, and objects with and
\* without "types" and with and without the issue keys
ConfigFiles ==
  {AbsentFile, UnreadableFile}
  \cup {WithTypes(c) : c \in ConfigSet}
  \cup {WithoutTypes(c) : c \in ConfigSet}
  \cup {WithoutTypes([c EXCEPT !.issuePrefixes = <<<<JDash>>>>,
                               !.issueUrlFormat = <<UrlFormat>>]) : c \in ConfigSet}

ConfigCalls == {Pending("load_version_config", file, <<>>) : file \in ConfigFiles}

\* the files the validator is run on: every pyproject.toml with a report
\* that can be written, and those without optional profiles also unreadable
\* or with a report that cannot be written
ValidatorFiles ==
  {[data |-> Loaded(data), readable |-> TRUE, writable |-> TRUE] : data \in Pyprojects}
  \cup {[data |-> Loaded(data), readable |-> r, writable |-> w] :
          data \in {p \in Pyprojects : ~HasOptional(p)}, r \in BOOLEAN, w \in BOOLEAN}

ValidatorCalls == {Pending("main", file, <<>>) : file \in ValidatorFiles}

\* the call is one of the calls above
CallInputs ==
  \/ call \in ParseCalls
  \/ call \in CleanCalls
  \/ call \in ExtractCalls
  \/ call \in OverlapCalls
  \/ call \in FormatCalls
  \/ call \in ConsolidateCalls
  \/ call \in ProfileCalls
  \/ call \in ConfigCalls
  \/ call \in ValidatorCalls

CallsInit ==
  /\ remote = [pool |-> {}, long |-> FALSE]
  /\ RunStart
  /\ CallInputs

Return(result) == call' = [call EXCEPT !.done = TRUE, !.result = result]

ParseCommitMessage ==
  /\ call.fn = "parse_commit_message"
  /\ ~call.done
  /\ Return(parse_commit_message(SubjectOf(call.input)))
  /\ UNCHANGED RunVars

ExtractIssueNumbers ==
  /\ call.fn = "extract_issue_numbers"
  /\ ~call.done
  /\ Return(extract_issue_numbers(Flatten(call.input), call.config))
  /\ UNCHANGED RunVars

CleanSubject ==
  /\ call.fn = "clean_subject"
  /\ ~call.done
  /\ Return(clean_subject(Flatten(call.input), call.config))
  /\ UNCHANGED RunVars

\* clean_subject applied to the subject it returned
CleanSubjectAgain ==
  /\ call.fn = "clean_subject"
  /\ call.done
  /\ call.again = <<>>
  /\ call' = [call EXCEPT !.again = <<clean_subject(call.result, call.config)>>]
  /\ UNCHANGED RunVars

FormatCommitLine ==
  /\ call.fn = "format_commit_line"
  /\ ~call.done
  /\ Return(format_commit_line(call.input, call.config))
  /\ UNCHANGED RunVars

ConsolidateProfileRequirements ==
  /\ call.fn = "consolidate_profile_requirements"
  /\ ~call.done
  /\ Return(consolidate_profile_requirements(
              [i \in DOMAIN call.input |-> DepText(call.input[i])],
              call.config.legacy))
  /\ UNCHANGED RunVars

ExtractDependenciesByProfile ==
  /\ call.fn = "extract_dependencies_by_profile"
  /\ ~call.done
  /\ Return(extract_dependencies_by_profile(Loaded(call.input)))
  /\ UNCHANGED RunVars

ExtractDependencies ==
  /\ call.fn = "extract_dependencies"
  /\ ~call.done
  /\ Return(extract_dependencies(Loaded(call.input)))
  /\ UNCHANGED RunVars

LoadVersionConfig ==
  /\ call.fn = "load_version_config"
  /\ ~call.done
  /\ Return(load_version_config(call.input))
  /\ UNCHANGED RunVars

ValidateDependencies ==
  /\ call.fn = "main"
  /\ ~call.done
  /\ Return(validator_main(call.input))
  /\ UNCHANGED RunVars

CallsNext ==
  \/ ParseCommitMessage
  \/ ExtractIssueNumbers
  \/ CleanSubject
  \/ CleanSubjectAgain
  \/ FormatCommitLine
  \/ ConsolidateProfileRequirements
  \/ ExtractDependenciesByProfile
  \/ ExtractDependencies
  \/ LoadVersionConfig
  \/ ValidateDependencies

Calls == CallsInit /\ [][CallsNext]_vars

Parsed == call.fn = "parse_commit_message" /\ call.done

AllOf(t, Is(_)) == \A i \in DOMAIN t : Is(t[i])

\* the parts are those of the shape type(scope): text (#N) or type: text (#N),
\* the suffix present or not
WellFormed(c) ==
  /\ c.type # <<>>
  /\ AllOf(c.type, IsWord)
  /\ c.scoped => c.scope # <<>> /\ ")" \notin Range(c.scope)
  /\ c.sep = <<":", " ">>
  /\ c.text # <<>>
  /\ c.suffixed => c.gap = <<" ">> /\ c.pr # <<>> /\ AllOf(c.pr, IsDigit)

\* t ends with white space and (#digits)
EndsWithPR(t) == \E p \in 1..Len(t) : IsPRSuffix(t, p)

EndsWithSpace(t) == t # <<>> /\ IsSpace(t[Len(t)])

PartsGiven(c) ==
  [type |-> c.type,
   scope |-> IF c.scoped THEN c.scope ELSE None,
   subject |-> c.text,
   pr_number |-> IF c.suffixed THEN c.pr ELSE None]

\* C15 as stated: a subject of the shape type(scope): text (#N) or
\* type: text (#N) is parsed into its parts, with no scope for the second
\* shape; without the suffix there is no PR number and the text is the
\* whole remainder.
C15_ParsesShapes ==
  /\ Parsed
  /\ WellFormed(call.input)
  /\ ~call.input.suffixed => ~EndsWithPR(call.input.text)
  => call.result = PartsGiven(call.input)

\* C15, amended: the same for a text that does not end with white space
\* when the suffix is present; white space between the text and the suffix
\* is no part of the returned text.
C15_ParsesTrimmedShapes ==
  /\ Parsed
  /\ WellFormed(call.input)
  /\ ~call.input.suffixed => ~EndsWithPR(call.input.text)
  /\ call.input.suffixed => ~EndsWithSpace(call.input.text)
  => call.result = PartsGiven(call.input)

\* a scoped subject whose text ends with (#5) was parsed with its suffix (#12)
C15_Witness ==
  /\ Parsed
  /\ WellFormed(call.input)
  /\ call.input.scoped
  /\ call.input.suffixed
  /\ call.input.text = <<"a", " ", "(", "#", "5", ")">>
  /\ call.result.pr_number = <<"1", "2">>
  /\ call.result.subject = call.input.text

\* s has the shape ^(\w+)\(([^)]+)\): (.+?)..., the type ending at some k
\* and the scope at some j
ScopedShape(s) ==
  \E k \in 1..Len(s) : \E j \in (k + 3)..Len(s) :
    /\ \A i \in 1..k : IsWord(s[i])
    /\ s[k + 1] = "("
    /\ \A i \in (k + 2)..(j - 1) : s[i] # ")"
    /\ s[j] = ")"
    /\ Len(s) >= j + 3
    /\ s[j + 1] = ":"
    /\ s[j + 2] = " "

\* s has the shape ^(\w+): (.+?)...
UnscopedShape(s) ==
  \E k \in 1..Len(s) :
    /\ \A i \in 1..k : IsWord(s[i])
    /\ Len(s) >= k + 3
    /\ s[k + 1] = ":"
    /\ s[k + 2] = " "

Unparsed(s) == [type |-> None, scope |-> None, subject |-> s, pr_number |-> None]

\* C16: a subject of the scoped shape is parsed with its scope; one that has
\* not the scoped but the unscoped shape is parsed with no scope; one of
\* neither shape comes back unchanged with no type, no scope, no PR number.
C16_ShapeOrder ==
  Parsed =>
    /\ ScopedShape(SubjectOf(call.input)) =>
         call.result.type # None /\ call.result.scope # None
    /\ ~ScopedShape(SubjectOf(call.input)) /\ UnscopedShape(SubjectOf(call.input)) =>
         call.result.type # None /\ call.result.scope = None
    /\ ~ScopedShape(SubjectOf(call.input)) /\ ~UnscopedShape(SubjectOf(call.input)) =>
         call.result = Unparsed(SubjectOf(call.input))

\* a subject that misses the unscoped shape by the space after its colon,
\* and has a PR suffix, came back unchanged
C16_Witness ==
  /\ Parsed
  /\ ~call.input.scoped
  /\ call.input.type = <<"f">>
  /\ call.input.text = <<"a">>
  /\ call.input.sep = <<":">>
  /\ call.input.suffixed
  /\ call.result = Unparsed(SubjectOf(call.input))

(* ------------------------------------------------------------------ *)
(* Issue references                                                    *)
(* ------------------------------------------------------------------ *)
IssueFunctions == {"extract_issue_numbers", "clean_subject", "format_commit_line"}

\* a call of one of them with issuePrefixes absent or empty
NoPrefixes == call.fn \in IssueFunctions /\ ~HasPrefixes(call.config)

\* C17: when issuePrefixes is absent or empty, extract_issue_numbers
\* returns the empty list, clean_subject returns the subject it was given,
\* and format_commit_line adds no issue link.
C17_NoPrefixesNoIssues ==
  call.done /\ NoPrefixes =>
    /\ call.fn = "extract_issue_numbers" => call.result = {}
    /\ call.fn = "clean_subject" => call.result = Flatten(call.input)
    /\ call.fn = "format_commit_line" => call.result.issue_links = {}

\* clean_subject has returned a subject that holds "j-1", unchanged, for a
\* configuration whose issuePrefixes is the empty list
C17_Witness ==
  /\ call.fn = "clean_subject"
  /\ call.done
  /\ call.config.issuePrefixes = <<<<>>>>
  /\ call.input = <<<<"j", "-", "1">>, <<":">>, <<"j">>>>
  /\ call.result = Flatten(call.input)

\* clean_subject has been applied to a subject and then to its result
CleanedTwice == call.fn = "clean_subject" /\ call.done /\ call.again # <<>>

\* C18: clean_subject is idempotent: applied to its own result, under the
\* same configuration, it returns that result.
C18_CleanIdempotent == CleanedTwice => call.again[1] = call.result

\* the prefixes of the configuration hold no white space
PlainPrefixes ==
  \A k \in DOMAIN call.config.issuePrefixes[1] :
    \A h \in DOMAIN call.config.issuePrefixes[1][k] :
      ~IsSpace(call.config.issuePrefixes[1][k][h])

\* clean_subject is idempotent when issuePrefixes is absent or empty, or
\* when none of its prefixes holds white space
C18_IdempotentForPlainPrefixes ==
  CleanedTwice /\ (HasPrefixes(call.config) => PlainPrefixes) =>
    call.again[1] = call.result

(* ------------------------------------------------------------------ *)
(* Issue links of a commit line                                        *)
(* ------------------------------------------------------------------ *)
Formatted == call.fn = "format_commit_line" /\ call.done

\* C19: a commit line carries issue links only if the commit has issue
\* references and the configuration has a non-empty issuePrefixes and a
\* non-empty issueUrlFormat.
C19_LinksOnlyWhenConfigured ==
  Formatted /\ call.result.issue_links # {} =>
    /\ call.input.issue_numbers # {}
    /\ HasPrefixes(call.config)
    /\ HasUrlFormat(call.config)

\* the line of a commit that refers to j-1, formatted with the prefix "j-"
\* and the template u/{{prefix}}{{id}}, carries the link [j-1](u/j-1)
C19_Witness ==
  /\ Formatted
  /\ call.input.issue_numbers = {<<"j", "-", "1">>}
  /\ call.config = IssueConfig(<<<<JDash>>>>, <<UrlFormat>>)
  /\ call.result.issue_links =
       {<<"[", "j", "-", "1", "]", "(", "u", "/", "j", "-", "1", ")">>}

(* ------------------------------------------------------------------ *)
(* Consolidated requirements                                           *)
(* ------------------------------------------------------------------ *)
Consolidated == call.fn = "consolidate_profile_requirements" /\ call.done

\* the package name of a listed dependency: lower-case, "_" and "." as "-"
PackageOf(d) ==
  [i \in DOMAIN d.name |->
     CASE d.name[i] \in {"_", "."} -> "-"
       [] d.name[i] = "B" -> "b"
       [] OTHER -> d.name[i]]

\* the places of the list where the package is named
PlacesOf(package) == {i \in DOMAIN call.input : PackageOf(call.input[i]) = package}

\* an exact pin whose version is numbers separated by dots
ExactPin(d) == d.operator = EqualsOp /\ IsRelease(d.version)

ExactPlaces(package) == {i \in PlacesOf(package) : ExactPin(call.input[i])}

\* the place holds an exact pin of the package with no higher one in the list
Highest(package, i) ==
  /\ i \in ExactPlaces(package)
  /\ \A j \in ExactPlaces(package) :
       ~ReleaseLess(Release(call.input[i].version), Release(call.input[j].version))

\* C20: consolidate_profile_requirements keeps exactly one entry for each
\* package name (lower-case, "_" and "." as "-") of the list and no other;
\* for a package that occurs more than once with at least one exact pin of a
\* parseable version, the entry is an occurrence with the highest exact
\* version.
C20_OneEntryHighestPin ==
  Consolidated =>
    /\ \A i \in DOMAIN call.input :
         Cardinality({k \in DOMAIN call.result :
                        call.result[k].key = PackageOf(call.input[i])}) = 1
    /\ \A k \in DOMAIN call.result :
         /\ PlacesOf(call.result[k].key) # {}
         /\ \E i \in PlacesOf(call.result[k].key) :
              call.result[k].original = DepText(call.input[i])
         /\ Cardinality(PlacesOf(call.result[k].key)) > 1
            /\ ExactPlaces(call.result[k].key) # {} =>
              \E i \in PlacesOf(call.result[k].key) :
                /\ Highest(call.result[k].key, i)
                /\ call.result[k].original = DepText(call.input[i])

\* of a==2.0, a==2.10 and a==2.5 only a==2.10 is kept
C20_Witness ==
  /\ Consolidated
  /\ call.input = <<Dep(<<"a">>, EqualsOp, <<"2", ".", "0">>, <<>>),
                    Dep(<<"a">>, EqualsOp, <<"2", ".", "1", "0">>, <<>>),
                    Dep(<<"a">>, EqualsOp, <<"2", ".", "5">>, <<>>)>>
  /\ call.result = <<[key |-> <<"a">>,
                      original |-> <<"a", "=", "=", "2", ".", "1", "0">>]>>

(* ------------------------------------------------------------------ *)
(* Profiles                                                            *)
(* ------------------------------------------------------------------ *)
Extracted ==
  call.fn \in {"extract_dependencies_by_profile", "extract_dependencies"} /\ call.done

\* the name is dev in some letter case
IsDev(name) ==
  /\ Len(name) = 3
  /\ name[1] \in {"d", "D"}
  /\ name[2] \in {"e", "E"}
  /\ name[3] \in {"v", "V"}

\* the dependencies of the file that are listed under dependencies or
\* under a profile whose name is not dev
ListedOutsideDev ==
  IF call.input.project = <<>> THEN {}
  ELSE (IF call.input.project[1].dependencies = <<>> THEN {}
        ELSE {DepText(d) : d \in Range(call.input.project[1].dependencies[1])})
       \cup
       (IF call.input.project[1].optional = <<>> THEN {}
        ELSE UNION {{DepText(d) : d \in Range(p.deps)} :
                      p \in {q \in Range(call.input.project[1].optional[1]) :
                               ~IsDev(q.key)}})

\* C21: a profile named dev in any letter case is no key of the map that
\* extract_dependencies_by_profile or extract_dependencies returns, and the
\* map holds no dependency that the file lists under such a profile only.
C21_DevProfileExcluded ==
  Extracted =>
    \A k \in DOMAIN call.result :
      /\ ~IsDev(call.result[k].key)
      /\ Range(call.result[k].deps) \subseteq ListedOutsideDev

\* the file has the profiles DEV (a==2) and api (a==1): only api is kept
C21_Witness ==
  /\ call.fn = "extract_dependencies"
  /\ call.done
  /\ call.input = [project |-> <<[dependencies |-> <<>>,
                                  optional |-> <<
                                    <<[key |-> <<"D", "E", "V">>,
                                       deps |-> <<Dep(<<"a">>, EqualsOp, <<"2">>, <<>>)>>],
                                      [key |-> <<"a", "p", "i">>,
                                       deps |-> <<Dep(<<"a">>, EqualsOp, <<"1">>, <<>>)>>]>>
                                  >>]>>]
  /\ call.result = <<[key |-> <<"a", "p", "i">>, deps |-> <<<<"a", "=", "=", "1">>>>]>>

(* ------------------------------------------------------------------ *)
(* The environment and the starting ref                                *)
(* ------------------------------------------------------------------ *)
EnvironmentRead == environment # Unread

\* a request went to the remote: a page request or a latest-release lookup
RemoteAsked == attempts > 0 \/ requests > 0 \/ lookups > 0

\* C22: when GITHUB_TOKEN or GITHUB_REPOSITORY is unset or empty, the
\* process has exited with status 1 and no request went to the remote: none
\* before the variables were read, and none after.
C22_EnvironmentFirst ==
  /\ ~EnvironmentRead => ~RemoteAsked
  /\ EnvironmentRead
     /\ (environment.GITHUB_TOKEN \in {"unset", "empty"}
         \/ environment.GITHUB_REPOSITORY \in {"unset", "empty"}) =>
       /\ pc = "exit"
       /\ exit_code = 1
       /\ ~RemoteAsked

\* the token is set and the repository is the empty text: exit 1, no request
C22_Witness ==
  /\ environment = [GITHUB_TOKEN |-> "set", GITHUB_REPOSITORY |-> "empty"]
  /\ pc = "exit"
  /\ exit_code = 1
  /\ ~RemoteAsked

\* C23: a fetch that is given the empty starting ref compares from the
\* empty ref, the beginning of history, and from no other ref: the commits
\* it returns are not those of a comparison from another base.
C23_EmptyRefFromBeginning ==
  [][attempts >= 1 /\ base_ref = EmptyRef => base_ref' = EmptyRef]_vars

(* ------------------------------------------------------------------ *)
(* The issue references of a text                                      *)
(* ------------------------------------------------------------------ *)
IssuesExtracted ==
  call.fn = "extract_issue_numbers" /\ call.done /\ HasPrefixes(call.config)

\* text[i..e] is prefix followed by digits, all the digits that follow it
IsOccurrence(text, prefix, i, e) ==
  /\ OccursAt(text, prefix, i)
  /\ i + Len(prefix) <= e
  /\ e <= Len(text)
  /\ \A h \in (i + Len(prefix))..e : text[h] \in Digits
  /\ e = Len(text) \/ text[e + 1] \notin Digits

\* the places <<i, e>> where prefix followed by digits occurs in text
Occurrences(text, prefix) ==
  {o \in (1..Len(text)) \X (1..Len(text)) : IsOccurrence(text, prefix, o[1], o[2])}

\* an occurrence of prefix that starts inside an earlier one
Overlapped(text, prefix, o) ==
  \E earlier \in Occurrences(text, prefix) : earlier[1] < o[1] /\ o[1] <= earlier[2]

\* r is one of the prefixes followed only by digits, at least one
PrefixThenDigits(r, prefixes) ==
  \E k \in DOMAIN prefixes :
    /\ OccursAt(r, prefixes[k], 1)
    /\ Len(r) > Len(prefixes[k])
    /\ \A h \in (Len(prefixes[k]) + 1)..Len(r) : r[h] \in Digits

\* C24 as stated: with prefixes configured, extract_issue_numbers returns
\* every distinct occurrence of a prefix followed by digits, none missing,
\* and every element returned is a configured prefix followed only by digits.
C24_EveryOccurrence ==
  IssuesExtracted =>
    /\ call.result =
         UNION {{Slice(Flatten(call.input), o[1], o[2]) :
                   o \in Occurrences(Flatten(call.input), call.config.issuePrefixes[1][k])} :
                k \in DOMAIN call.config.issuePrefixes[1]}
    /\ \A r \in call.result : PrefixThenDigits(r, call.config.issuePrefixes[1])

\* C24: with prefixes configured, every element extract_issue_numbers
\* returns is an occurrence in the text of a configured prefix followed only
\* by digits, and every such occurrence that does not start inside an
\* earlier occurrence of the same prefix is returned.
C24_UnoverlappedOccurrences ==
  IssuesExtracted =>
    LET text == Flatten(call.input)
        prefixes == call.config.issuePrefixes[1]
    IN /\ \A r \in call.result :
            /\ PrefixThenDigits(r, prefixes)
            /\ \E k \in DOMAIN prefixes : \E o \in Occurrences(text, prefixes[k]) :
                 r = Slice(text, o[1], o[2])
       /\ \A k \in DOMAIN prefixes : \A o \in Occurrences(text, prefixes[k]) :
            ~Overlapped(text, prefixes[k], o) => Slice(text, o[1], o[2]) \in call.result

\* "1-1j1-2" with the prefix "1-": both references came back
C24_Witness ==
  /\ IssuesExtracted
  /\ call.config.issuePrefixes = <<<<OneDash>>>>
  /\ call.input = <<<<"1", "-", "1">>, <<"j">>, <<"1", "-", "2">>>>
  /\ call.result = {<<"1", "-", "1">>, <<"1", "-", "2">>}

(* ------------------------------------------------------------------ *)
(* The configuration loaded                                            *)
(* ------------------------------------------------------------------ *)
\* load_version_config has returned a configuration
ConfigLoaded ==
  call.fn = "load_version_config" /\ call.done /\ call.result # <<>>

NoTypesKey(file) == file.json # <<>> /\ file.json[1].types = <<>>

\* C25: the configuration load_version_config returns has a types list;
\* for an absent file and for a file without a "types" key it is the
\* built-in default, the same list in both cases; the configuration
\* returned for an absent file has no issuePrefixes and no issueUrlFormat.
C25_SameDefaultTypes ==
  ConfigLoaded =>
    /\ "types" \in DOMAIN call.result[1]
    /\ ~call.input.exists \/ NoTypesKey(call.input) =>
         call.result[1].types = load_version_config(AbsentFile)[1].types
    /\ ~call.input.exists =>
         call.result[1].issuePrefixes = <<>> /\ call.result[1].issueUrlFormat = <<>>

(* ------------------------------------------------------------------ *)
(* The lines of one commit                                             *)
(* ------------------------------------------------------------------ *)
\* the lines of the release notes that are the line of the commit
LinesOf(full_hash) ==
  {j \in DOMAIN release_notes :
     /\ release_notes[j].kind = "*"
     /\ release_notes[j].commit[1].full_hash = full_hash}

\* C26: every fetched commit has at most one line in the release notes,
\* the regular and the custom sections taken together.
C26_OneLinePerCommit ==
  \A i \in DOMAIN commits : Cardinality(LinesOf(commits[i].full_hash)) <= 1

(* ------------------------------------------------------------------ *)
(* The two attempts of the fetch                                       *)
(* ------------------------------------------------------------------ *)
C27_Invariant ==
  /\ attempts <= 2
  /\ lookups <= 1
  /\ lookups = 1 => attempts >= 1 /\ ref_errors # <<>>
  /\ attempts = 2 => lookups = 1
  /\ attempts = 2 /\ Returned =>
       /\ Len(commits) = Len(received)
       /\ \A i \in DOMAIN commits : commits[i].full_hash = received[i].oid

\* C27: one run starts at most two fetch attempts and makes at most one
\* latest-release lookup; the lookup is made only when the first attempt has
\* failed and the second has not started, and the second attempt starts only
\* with the lookup; the list a second attempt returns holds the commits of
\* the pages of the second attempt and no other.
C27_TwoAttempts ==
  /\ []C27_Invariant
  /\ [][lookups' # lookups =>
          attempts = 1 /\ ref_errors = <<"base">> /\ pc = "lookup"]_vars
  /\ [][attempts' = 2 /\ attempts # 2 =>
          attempts = 1 /\ lookups = 0 /\ lookups' = 1]_vars

\* after a first attempt that failed on the base ref and one lookup, a
\* second attempt has returned the commits of its two pages
C27_Witness ==
  /\ attempts = 2
  /\ lookups = 1
  /\ ref_errors = <<"base">>
  /\ Returned
  /\ requests = 2
  /\ Len(commits) = 2
  /\ Len(commits) = Len(received)

(* ------------------------------------------------------------------ *)
(* Bump commits and the titles of the custom sections                  *)
(* ------------------------------------------------------------------ *)
\* the fetched commits that the section detects as bump commits, in order
BumpsOf(section) ==
  LET detected(c) == _is_custom_bump_commit(c, section) # None
  IN SelectSeq(commits, detected)

VersionsIn(bumps, section) ==
  [i \in 1..Len(bumps) |-> _is_custom_bump_commit(bumps[i], section)]

BumpVersions(section) == VersionsIn(BumpsOf(section), section)

\* the bump commits of the section that come after a commit that is none
AfterChange(section) ==
  {i \in 2..Len(commits) :
     /\ _is_custom_bump_commit(commits[i], section) # None
     /\ _is_custom_bump_commit(commits[i - 1], section) = None}

\* the entries of custom_changes_by_section under the title of the section
EntriesOf(section) ==
  {j \in DOMAIN custom_changes_by_section :
     custom_changes_by_section[j].key =
       _build_section_title(section.key, _create_version_range(BumpVersions(section)))}

\* found = _process_section_commits(commits, section)
ChangesOnly(section, found, versions) ==
  /\ \A c \in Range(found.commits) : _is_custom_bump_commit(c, section) = None
  /\ found.versions = versions
  /\ Len(found.commits) <= Cardinality(AfterChange(section))
  /\ versions # <<>> =>
       \A j \in DOMAIN custom_changes_by_section :
         custom_changes_by_section[j].key =
           _build_section_title(section.key, _create_version_range(versions)) =>
           \A c \in Range(custom_changes_by_section[j].commits) :
             _is_custom_bump_commit(c, section) = None

\* C28: when process_commits has returned, no commit that a custom section
\* detects as a bump commit is among the change commits of that section;
\* every bump commit adds its version, and only a bump commit that comes
\* after a commit that is none adds a change commit, so a bump commit right
\* after another adds a version only.
C28_BumpNeverChange ==
  pc = "render" =>
    \A k \in DOMAIN EnabledCustom :
      ChangesOnly(EnabledCustom[k],
                  _process_section_commits(commits, EnabledCustom[k]),
                  BumpVersions(EnabledCustom[k]))

\* two bump commits of a section, one right after the other, gave the
\* section two versions and one change commit, the commit before the first
C28_Witness ==
  /\ pc = "render"
  /\ Len(commits) = 3
  /\ \E k \in DOMAIN EnabledCustom :
       /\ _is_custom_bump_commit(commits[1], EnabledCustom[k]) = None
       /\ _is_custom_bump_commit(commits[2], EnabledCustom[k]) # None
       /\ _is_custom_bump_commit(commits[3], EnabledCustom[k]) # None
       /\ \E j \in EntriesOf(EnabledCustom[k]) :
            custom_changes_by_section[j].commits = <<commits[1]>>
       /\ Len(BumpVersions(EnabledCustom[k])) = 2

\* C29: a custom section with an empty tagPrefix that found change commits
\* is listed under its name alone, without a version range.
C29_NameAlone ==
  Classified =>
    \A k \in DOMAIN EnabledCustom :
      /\ EnabledCustom[k].tagPrefix = <<>>
      /\ _process_section_commits(commits, EnabledCustom[k]).commits # <<>>
      => \E j \in DOMAIN custom_changes_by_section :
           /\ custom_changes_by_section[j].key = EnabledCustom[k].key
           /\ custom_changes_by_section[j].commits =
                _process_section_commits(commits, EnabledCustom[k]).commits

(* ------------------------------------------------------------------ *)
(* The dependency validator                                            *)
(* ------------------------------------------------------------------ *)
\* the validator has read the file and written its report
Validated ==
  call.fn = "main" /\ call.done /\ call.input.readable /\ call.input.writable

\* the dependencies of pyproject.toml outside the dev profiles, as texts
OutsideDev(data) ==
  IF data.project = <<>> THEN {}
  ELSE UNION ({Range(data.project[1].dependencies[i]) : i \in DOMAIN data.project[1].dependencies}
              \cup {UNION {Range(data.project[1].optional[i][k].deps) :
                             k \in {h \in DOMAIN data.project[1].optional[i] :
                                      ~IsDev(data.project[1].optional[i][h].key)}} :
                      i \in DOMAIN data.project[1].optional})

\* the versions a package is pinned to with == outside the dev profiles
PinsOf(data, package) ==
  {parse_dependency(d).version :
     d \in {e \in OutsideDev(data) :
              /\ parse_dependency(e).name = package
              /\ parse_dependency(e).operator = <<"=", "=">>}}

\* the packages pinned to two or more versions
Conflicting(data) ==
  {package \in {parse_dependency(d).name : d \in OutsideDev(data)} :
     Cardinality(PinsOf(data, package)) >= 2}

\* C30: the validator, having read the file and written its report, exits
\* with status 0 exactly when no package is pinned with == to two or more
\* versions outside the dev profiles; find_conflicts reports exactly the
\* packages that are, each once.
C30_ExitIffNoConflict ==
  Validated =>
    /\ call.result.exit_code = 0 <=> Conflicting(call.input.data) = {}
    /\ {call.result.conflicts[i].package : i \in DOMAIN call.result.conflicts}
         = Conflicting(call.input.data)
    /\ \A i, j \in DOMAIN call.result.conflicts :
         i # j => call.result.conflicts[i].package # call.result.conflicts[j].package

====
